---- MODULE Spec2Model ----
(***************************************************************************)
(* Verification model of the schema-resolution and example-generation      *)
(* engine: SwaggerMocker (src/lib/generator/swaggerMocker.ts) and          *)
(* SpecResolver (src/lib/validators/specResolver.ts).                      *)
(*                                                                         *)
(* The generator is modelled as a machine with an explicit call stack: one *)
(* frame per active call of mockCachedObj, the visited sets as heap cells  *)
(* shared by reference between a call and its callees.                     *)
(***************************************************************************)
EXTENDS FiniteSets, Integers, Sequences, TLC

\* ------------------------------------------------------------------------
\* Bounds
\* ------------------------------------------------------------------------
\* capacity of the call stack (stands for the engine's recursion limit)
MaxDepth == 12
\* number of top-level generation calls in one behaviour
MaxCalls == 2

\* ------------------------------------------------------------------------
\* Ordered maps (JS objects keep insertion order): sequences of <<key, value>>
\* ------------------------------------------------------------------------
Keys(m) == [i \in DOMAIN m |-> m[i][1]]

Has(m, k) == \E i \in DOMAIN m : m[i][1] = k

Get(m, k) == m[CHOOSE i \in DOMAIN m : m[i][1] = k][2]

Put(m, k, v) ==
  IF Has(m, k)
  THEN [i \in DOMAIN m |-> IF m[i][1] = k THEN <<k, v>> ELSE m[i]]
  ELSE Append(m, <<k, v>>)

RECURSIVE SpreadFrom(_, _, _)
SpreadFrom(a, b, i) ==
  IF i > Len(b) THEN a ELSE SpreadFrom(Put(a, b[i][1], b[i][2]), b, i + 1)

\* { ...a, ...b }
Spread(a, b) == SpreadFrom(a, b, 1)

SeqToSet(s) == {s[i] : i \in DOMAIN s}

\* ------------------------------------------------------------------------
\* Schemas of the document the generator reads
\* ------------------------------------------------------------------------
NoSchema == [t |-> "none"]

RefS(n) == [t |-> "ref", ref |-> n]

\* a primitive schema; enum = <<>> when no enum is declared
PrimS(en) == [t |-> "prim", enum |-> en]

ArrS(it) == [t |-> "array", items |-> it]

\* additionalProperties absent or false
AddlAbsent == [t |-> "absent"]

\* addl: AddlAbsent, NoSchema (additionalProperties: true) or a schema
ObjS(props, allOf, disc, discMap, addl, required) ==
  [t |-> "object", props |-> props, allOf |-> allOf, disc |-> disc,
   discMap |-> discMap, addl |-> addl, required |-> required]

\* ------------------------------------------------------------------------
\* Values: undefined, raw example values, cache items
\* ------------------------------------------------------------------------
NoVal == [n |-> 0, s |-> ""]

MkVal(kind, value, children, required, mocked) ==
  [kind |-> kind, value |-> value, children |-> children,
   required |-> required, mocked |-> mocked]

Undef == MkVal("undef", NoVal, <<>>, <<>>, FALSE)

\* a raw JS object / array / scalar (caller-supplied example, or the working
\* copy "example" of mockCachedObj)
RawObj(children) == MkVal("rawobj", NoVal, children, <<>>, FALSE)

RawArr(children) == MkVal("rawarr", NoVal, children, <<>>, FALSE)

RawScalar(v) == MkVal("raw", v, <<>>, <<>>, FALSE)

\* the value the external synthesizer returns on its k-th invocation
Synth(k) == [n |-> k, s |-> ""]

Const(str) == [n |-> 0, s |-> str]

Truthy(v) == v.kind # "undef" /\ ~(v.kind = "raw" /\ v.value = NoVal)

Child(v, k) == IF v.kind # "undef" /\ Has(v.children, k) THEN Get(v.children, k) ELSE Undef

\* ------------------------------------------------------------------------
\* State
\* ------------------------------------------------------------------------
VARIABLES
  defs,          \* the document: reference name -> definition / parameter
  payloadCache,  \* exampleCache: key -> item (Undef when the key is absent)
  mockCache,     \* mockCache: key -> item (Undef when the key is absent)
  stack,         \* active calls of mockCachedObj, innermost last
  visitedSets,   \* heap of Set<string> objects; a frame holds an index
  status,        \* "idle", "running", "done", "overflow"
  result,        \* value returned by the last top-level call
  nextVal,       \* number of invocations of the value synthesizer so far
  calls,         \* number of top-level calls started
  selected,      \* base reference -> subtypes chosen by mockForDiscriminator
  job,           \* what started the running call: "top" or "request"
  root,          \* the reference the running top-level call was started on
  paramSpec,     \* specItem.content.parameters
  paramExample,  \* example.parameters
  supplied,      \* example.parameters as the caller supplied it
  pidx,          \* position of mockRequest in paramSpec
  rule,          \* the rule validator's onParameter predicate
  infoVersion,   \* spec.info.version
  earlier,       \* the plan of top-level calls and the mock cache an earlier generator left
  genLog,        \* names for which mockRequest invoked the generator
  specItem,      \* the operation: its declared responses and its polling attribute
  respExample,   \* example.responses: status code -> response
  ridx           \* position of mockResponse in the keys of example.responses

VARIABLES
  definitions,   \* specInJson.definitions: name -> model
  order,         \* the key order of specInJson.definitions
  paths,         \* specInJson.paths: the operations it holds
  xmsPaths,      \* specInJson["x-ms-paths"]: the operations it holds
  opParams,      \* operation -> operation.parameters
  hostParams,    \* x-ms-parameterized-host.parameters (<<>> when absent)
  respSchema,    \* the schema of the response of operation "get"
  resolvedAllOfModels,  \* SpecResolver.resolvedAllOfModels: its keys
  subTreeMap,    \* the Map built by resolveDiscriminator
  references,    \* findRefs(spec) taken when resolveDiscriminator starts
  rpc,           \* the pass resolve is about to run
  idx,           \* position of the running pass in the definitions
  run,           \* 1 in the first call of resolve, 2 in the second
  firstResult,   \* the document as the first call of resolve left it
  original,      \* the definitions as they were given to the resolver
  options,       \* SpecResolver.options after the constructor
  passLog,       \* the passes the running call of resolve has started, in order
  raised,        \* the value a pass threw inside the try block of resolve
  thrown,        \* the value resolve threw to its caller
  mergeLog,      \* the definitions whose allOf list resolveAllOfInModel merged, in order
  buildLog       \* the names createPolymorphicTree built a node for, in order

VARIABLES
  docsCache,        \* file -> the names of its definitions, in key order
  objects,          \* the definition objects of all parsed files: id -> object
  specDefinitions,  \* specInJson.definitions: name -> id of the object it holds
  visitedEntities,  \* SpecResolver.visitedEntities: its keys
  work,             \* running calls of resolveRelativePaths and loops, innermost last
  copies,           \* the objects set into specInJson.definitions, in order
  ipc,              \* "idle", "running", "done"
  loading           \* the references whose parseJson has not returned yet

incVars == <<docsCache, objects, specDefinitions, visitedEntities, work, copies, ipc,
             loading>>

resVars == <<definitions, order, paths, xmsPaths, opParams, hostParams, respSchema,
             resolvedAllOfModels, subTreeMap, references, rpc, idx, run, firstResult,
             original, options, passLog, raised, thrown, mergeLog, buildLog, incVars>>

genVars == <<defs, payloadCache, mockCache, stack, visitedSets, status, result,
             nextVal, calls, selected, job, root>>

reqVars == <<paramSpec, paramExample, supplied, pidx, rule, infoVersion, earlier, genLog,
             specItem, respExample, ridx>>

vars == <<genVars, reqVars, resVars>>

\* ------------------------------------------------------------------------
\* Helpers of SwaggerMocker
\* ------------------------------------------------------------------------
\* jsonLoader.resolveRefObj: the definition a $ref names, else the schema
ResolveRefObj(d, schema) == IF schema.t = "ref" THEN d[schema.ref] ELSE schema

\* getDefSpec: marks the reference visited and dereferences it
GetDefSpecVisited(schema, visited) ==
  IF schema.t = "ref" THEN visited \cup {schema.ref} ELSE visited

RemoveFromSet(schema, visited) ==
  IF schema.t = "ref" THEN visited \ {schema.ref} ELSE visited

AllOfOf(spec) == IF spec.t = "object" THEN spec.allOf ELSE <<>>

RECURSIVE Ancestors(_, _)
Ancestors(d, spec) ==
  UNION {{AllOfOf(spec)[i]} \cup Ancestors(d, d[AllOfOf(spec)[i]]) : i \in DOMAIN AllOfOf(spec)}

\* getProperties and getDiscriminator call getDefSpec(item, visited) and then
\* removeFromSet(item, visited) for every allOf item they walk: afterwards no
\* reference to an ancestor is left in the visited set
VisitedAfterAllOf(d, spec, visited) == visited \ Ancestors(d, spec)

RECURSIVE GetProperties(_, _)
RECURSIVE AllOfProperties(_, _, _, _)
AllOfProperties(d, allOf, i, acc) ==
  IF i > Len(allOf) THEN acc
  ELSE AllOfProperties(d, allOf, i + 1, Spread(acc, GetProperties(d, d[allOf[i]])))

GetProperties(d, spec) ==
  Spread(AllOfProperties(d, AllOfOf(spec), 1, <<>>), spec.props)

RECURSIVE GetDiscriminator(_, _)
RECURSIVE AllOfDiscriminator(_, _, _)
AllOfDiscriminator(d, allOf, i) ==
  IF i > Len(allOf) THEN ""
  ELSE IF GetDiscriminator(d, d[allOf[i]]) # "" THEN GetDiscriminator(d, d[allOf[i]])
  ELSE AllOfDiscriminator(d, allOf, i + 1)

GetDiscriminator(d, spec) ==
  IF spec.disc # "" THEN spec.disc ELSE AllOfDiscriminator(d, spec.allOf, 1)

RECURSIVE GetRequiredProperties(_, _)
RECURSIVE AllOfRequired(_, _, _, _)
AllOfRequired(d, allOf, i, acc) ==
  IF i > Len(allOf) THEN acc
  ELSE AllOfRequired(d, allOf, i + 1, acc \o GetRequiredProperties(d, d[allOf[i]]))

GetRequiredProperties(d, spec) ==
  IF spec.t = "object" THEN AllOfRequired(d, spec.allOf, 1, spec.required) ELSE <<>>

\* lines 165-174 with the two caches probed in the other order
GetCacheMockFirst(schema) ==
  IF schema.t = "ref"
  THEN IF mockCache[schema.ref] # Undef THEN mockCache[schema.ref]
       ELSE payloadCache[schema.ref]
  ELSE Undef

\* getCache: the payload cache is probed first, then the mock cache
GetCache(schema) ==
  IF schema.t = "ref"
  THEN IF payloadCache[schema.ref] # Undef THEN payloadCache[schema.ref]
       ELSE mockCache[schema.ref]
  ELSE Undef

\* MockerCache.checkAndCache: stores the item under the schema's reference
\* unless the key is already present
CheckAndCache(cache, schema, item) ==
  IF schema.t = "ref" /\ cache[schema.ref] = Undef
  THEN [cache EXCEPT ![schema.ref] = item]
  ELSE cache

\* mockForDiscriminator, lines 331-335: the discriminator value
DiscriminatorValueLast(props, discriminator, discMap) ==
  IF Has(props, discriminator) /\ Get(props, discriminator).t = "prim"
     /\ Get(props, discriminator).enum # <<>>
  THEN Get(props, discriminator).enum[Len(Get(props, discriminator).enum)]
  ELSE Keys(discMap)[Len(discMap)]

DiscriminatorValue(props, discriminator, discMap) ==
  IF Has(props, discriminator) /\ Get(props, discriminator).t = "prim"
     /\ Get(props, discriminator).enum # <<>>
  THEN Get(props, discriminator).enum[1]
  ELSE Keys(discMap)[1]

\* createLeafItem / createTrunkItem with the isMocked flag and required list
\* set as mockCachedObj does at lines 276-296
BuildCacheItem(example, required) ==
  IF example.kind \in {"rawobj", "rawarr"}
  THEN MkVal(IF example.kind = "rawarr" THEN "trunkarr" ELSE "trunk",
             NoVal, example.children, required, TRUE)
  ELSE MkVal("leaf", example.value, <<>>, required, TRUE)

\* Mocker.mock for an array schema: the collection built from the item
MockArray(arrItem) ==
  IF arrItem = Undef THEN RawArr(<<>>) ELSE RawArr(<< <<"0", arrItem>> >>)

\* reBuildExample: the plain value of an item, undefined members left out
RECURSIVE ReBuildExample(_)
RECURSIVE ReBuildChildren(_, _, _)
ReBuildChildren(ch, i, acc) ==
  IF i > Len(ch) THEN acc
  ELSE ReBuildChildren(ch, i + 1,
         IF ReBuildExample(ch[i][2]) = Undef THEN acc
         ELSE Append(acc, <<ch[i][1], ReBuildExample(ch[i][2])>>))

ReBuildExample(item) ==
  IF item.kind = "leaf" THEN RawScalar(item.value)
  ELSE IF item.kind = "trunk" THEN RawObj(ReBuildChildren(item.children, 1, <<>>))
  ELSE IF item.kind = "trunkarr" THEN RawArr(ReBuildChildren(item.children, 1, <<>>))
  ELSE Undef

\* ------------------------------------------------------------------------
\* Call frames
\* ------------------------------------------------------------------------
\* a call of mockCachedObj: its arguments (vis is the Set object it was given),
\* its position, its locals, and the content of the Set when it began
Frame(objName, schema, example, vis, isRequest, disc) ==
  [objName |-> objName, schema |-> schema, example |-> example, vis |-> vis,
   isRequest |-> isRequest, disc |-> disc, pc |-> "entry", spec |-> NoSchema,
   props |-> <<>>, todo |-> <<>>, key |-> "", held |-> Undef, entered |-> {}]

Top == stack[Len(stack)]

Rest == SubSeq(stack, 1, Len(stack) - 1)

SetTop(stk, f) == [stk EXCEPT ![Len(stk)] = f]

\* the caller's frame after the callee returned v
Resume(f, v) ==
  IF f.pc = "prop_wait"
  THEN [f EXCEPT !.example = RawObj(Put(f.example.children, f.key, v)), !.pc = "props"]
  ELSE IF f.pc = "addl_wait"
  THEN [f EXCEPT !.example = RawObj(Put(f.example.children, f.key, v)), !.pc = "finish"]
  ELSE IF f.pc = "arr_wait"
  THEN [f EXCEPT !.example = MockArray(v), !.pc = "finish"]
  ELSE [f EXCEPT !.held = v, !.pc = "disc_ret"]

\* name under which mockCachedObj generates the item of an array
ItemName == "_item"

\* keys util.randomKey can return
RandomKeys == {"k1", "p"}

ParamName(element) == ResolveRefObj(defs, element).name

\* line 51 returns to mockForExample, which goes on with line 52
AfterParam ==
  IF pidx < Len(paramSpec) THEN "request"
  ELSE IF job = "example" THEN "response"
  ELSE "done"

\* lines 60-64: the loop of mockResponse goes on or ends
AfterResponse == IF ridx < Len(respExample) THEN "response" ELSE "done"

\* lines 89-104: the headers mockHeaders returns for a status code
MockHeaders(statusCode) ==
  IF statusCode \notin {"201", "202"} THEN Undef
  ELSE IF rule.has /\ "headers" \in rule.rejects THEN Undef
  ELSE IF specItem.pollingAttr = "" THEN Undef
  ELSE RawObj(<< <<specItem.pollingAttr, RawScalar(Const("https://foo.com/operationstatus"))>> >>)

\* line 75: responseExample.hearders || this.mockHeaders(statusCode, specItem)
ResponseHeaders(responseExample, statusCode) ==
  IF Truthy(Child(responseExample, "hearders"))
  THEN Child(responseExample, "hearders")
  ELSE MockHeaders(statusCode)

\* lines 74-86: the response mockEachResponse returns; body is the value
\* mockObj returned
MockedResponse(statusCode, responseExample, body) ==
  RawObj(<< <<"headers", ResponseHeaders(responseExample, statusCode)>>,
            <<"body", IF Truthy(body) THEN body ELSE RawObj(<<>>)>> >>)

\* the value v goes back to the caller: a frame of the stack or, for the
\* outermost call, getMockCachedObj / mockRequest
Return(rest, v) ==
  IF rest # <<>>
  THEN /\ stack' = SetTop(rest, Resume(rest[Len(rest)], v))
       /\ UNCHANGED <<status, result, paramExample, pidx, respExample, ridx>>
  ELSE /\ stack' = <<>>
       /\ result' = v
       /\ IF job = "top"
          THEN /\ status' = "done"
               /\ UNCHANGED <<paramExample, pidx, respExample, ridx>>
          ELSE IF pidx <= Len(paramSpec)
          THEN /\ paramExample' =
                    Put(paramExample, ParamName(paramSpec[pidx]), ReBuildExample(v))
               /\ pidx' = pidx + 1
               /\ status' = AfterParam
               /\ UNCHANGED <<respExample, ridx>>
          ELSE /\ respExample' =
                    Put(respExample, respExample[ridx][1],
                        MockedResponse(respExample[ridx][1], respExample[ridx][2],
                                       ReBuildExample(v)))
               /\ ridx' = ridx + 1
               /\ status' = AfterResponse
               /\ UNCHANGED <<paramExample, pidx>>

\* a call of mockCachedObj: a new frame, or the recursion limit is hit
Call(stk, frame) ==
  /\ IF Len(stk) >= MaxDepth
     THEN /\ stack' = stk
          /\ status' = "overflow"
     ELSE /\ stack' = Append(stk, frame)
          /\ UNCHANGED status
  /\ UNCHANGED <<result, paramExample, pidx, respExample, ridx>>

\* a step inside the top frame
Step(f) ==
  /\ stack' = SetTop(stack, f)
  /\ UNCHANGED <<status, result, paramExample, pidx, respExample, ridx>>

SetVisited(i, s) == [visitedSets EXCEPT ![i] = s]

\* no earlier generator is compared with
NoEarlier == [plan |-> <<>>, instance |-> 1, cache |-> <<>>]

\* an operation without responses
NoSpecItem == [responses |-> <<>>, pollingAttr |-> ""]

\* what no step of mockCachedObj writes
machineFrame ==
  <<defs, payloadCache, calls, job, root, paramSpec, supplied, rule, infoVersion, earlier, genLog,
    specItem, resVars>>

\* ------------------------------------------------------------------------
\* mockCachedObj
\* ------------------------------------------------------------------------
\* lines 196-207 without the test of the visited set
EarlyReturnWithoutCycleBreak(f) ==
  \/ f.schema.t = "none"
  \/ GetCache(f.schema) # Undef

\* lines 196-207: invalid schema, cycle break, cache probe
EarlyReturn(f) ==
  \/ f.schema.t = "none"
  \/ f.schema.t = "ref" /\ f.schema.ref \in visitedSets[f.vis]
  \/ GetCache(f.schema) # Undef

\* lines 196-207 with an empty object returned for an invalid schema
EarlyValueEmptyForInvalid(f) ==
  IF f.schema.t = "none"
  THEN RawObj(<<>>)
  ELSE IF f.schema.t = "ref" /\ f.schema.ref \in visitedSets[f.vis]
  THEN Undef
  ELSE GetCache(f.schema)

EarlyValue(f) ==
  IF f.schema.t = "none" \/ (f.schema.t = "ref" /\ f.schema.ref \in visitedSets[f.vis])
  THEN Undef
  ELSE GetCache(f.schema)

\* lines 215-224 with mockForDiscriminator (320-355)
EnterDiscriminator(f, spec, props, example, discriminator, visited) ==
  IF spec.discMap # <<>>
  THEN LET value == DiscriminatorValue(GetProperties(defs, spec), discriminator, spec.discMap)
       IN IF ~Has(spec.discMap, value)
          THEN /\ visitedSets' = SetVisited(f.vis, RemoveFromSet(spec, visited))
               /\ Return(Rest, example)
               /\ UNCHANGED selected
          ELSE /\ visitedSets' = Append(SetVisited(f.vis, visited), {})
               /\ Call(SetTop(stack, [f EXCEPT !.spec = spec, !.props = props,
                                               !.example = example, !.pc = "disc_wait"]),
                       Frame(discriminator, Get(spec.discMap, value), RawObj(<<>>),
                             Len(visitedSets) + 1, f.isRequest, value))
               /\ selected' = IF f.schema.t = "ref"
                              THEN [selected EXCEPT ![f.schema.ref] =
                                      @ \cup {Get(spec.discMap, value).ref}]
                              ELSE selected
  ELSE /\ visitedSets' = SetVisited(f.vis, RemoveFromSet(spec, visited))
       /\ Return(Rest, Undef)
       /\ UNCHANGED selected

\* lines 196-270 up to the first nested call
Enter ==
  /\ status = "running"
  /\ stack # <<>>
  /\ Top.pc = "entry"
  /\ UNCHANGED machineFrame
  /\ UNCHANGED mockCache
  /\ LET f == [Top EXCEPT !.entered = visitedSets[Top.vis]]
     IN IF EarlyReturn(f)
        THEN /\ Return(Rest, EarlyValue(f))
             /\ UNCHANGED <<visitedSets, nextVal, selected>>
        ELSE LET spec == ResolveRefObj(defs, f.schema)
                 v1 == GetDefSpecVisited(f.schema, visitedSets[f.vis])
             IN IF spec.t = "object"
                THEN LET props == GetProperties(defs, spec)
                         v2 == VisitedAfterAllOf(defs, spec, v1)
                         example == IF Truthy(f.example) THEN f.example ELSE RawObj(<<>>)
                         discriminator == GetDiscriminator(defs, spec)
                     IN IF discriminator # "" /\ f.disc = "" /\ Has(props, discriminator)
                        THEN /\ EnterDiscriminator(f, spec, props, example, discriminator, v2)
                             /\ UNCHANGED nextVal
                        ELSE /\ Step([f EXCEPT !.spec = spec, !.props = props,
                                               !.todo = Keys(props), !.example = example,
                                               !.pc = "props"])
                             /\ visitedSets' = SetVisited(f.vis, v2)
                             /\ UNCHANGED <<nextVal, selected>>
                ELSE IF spec.t = "array"
                THEN /\ Call(SetTop(stack, [f EXCEPT !.spec = spec, !.pc = "arr_wait",
                                              !.example = IF Truthy(f.example) THEN f.example
                                                          ELSE RawArr(<<>>)]),
                             Frame(ItemName, spec.items, Child(f.example, "0"), f.vis,
                                   f.isRequest, ""))
                     /\ visitedSets' = SetVisited(f.vis, v1)
                     /\ UNCHANGED <<nextVal, selected>>
                ELSE /\ Step([f EXCEPT !.spec = spec, !.pc = "finish",
                                       !.example = IF Truthy(f.example) THEN f.example
                                                   ELSE RawScalar(Synth(nextVal + 1))])
                     /\ nextVal' = IF Truthy(f.example) THEN nextVal ELSE nextVal + 1
                     /\ visitedSets' = SetVisited(f.vis, v1)
                     /\ UNCHANGED selected

\* lines 226-240: one iteration of the loop over the property keys
NextProperty ==
  /\ status = "running"
  /\ stack # <<>>
  /\ Top.pc = "props"
  /\ Top.todo # <<>>
  /\ UNCHANGED machineFrame
  /\ UNCHANGED <<mockCache, visitedSets, nextVal, selected>>
  /\ LET f == Top
         key == Head(f.todo)
     IN IF key = f.objName /\ f.disc # ""
        THEN Step([f EXCEPT !.todo = Tail(f.todo),
                            !.example = RawObj(Put(f.example.children, key,
                                 MkVal("leaf", Const(f.disc), <<>>, <<>>, FALSE)))])
        ELSE Call(SetTop(stack, [f EXCEPT !.todo = Tail(f.todo), !.key = key,
                                          !.pc = "prop_wait"]),
                  Frame(key, Get(f.props, key), Child(f.example, key), f.vis,
                        f.isRequest, f.disc))

\* lines 242-256: the extra property for additionalProperties
AdditionalProperties ==
  /\ status = "running"
  /\ stack # <<>>
  /\ Top.pc = "props"
  /\ Top.todo = <<>>
  /\ UNCHANGED machineFrame
  /\ UNCHANGED <<mockCache, visitedSets, nextVal, selected>>
  /\ LET f == Top
     IN IF f.spec.addl.t # "absent"
        THEN \E newKey \in RandomKeys :
               IF Has(f.props, newKey)
               THEN Step([f EXCEPT !.pc = "finish"])
               ELSE Call(SetTop(stack, [f EXCEPT !.key = newKey, !.pc = "addl_wait"]),
                         Frame(newKey, f.spec.addl, Undef, f.vis, f.isRequest, f.disc))
        ELSE Step([f EXCEPT !.pc = "finish"])

\* lines 274-298 with the item stored in exampleCache
FinishIntoPayloadCache ==
  /\ status = "running"
  /\ stack # <<>>
  /\ Top.pc = "finish"
  /\ UNCHANGED <<defs, mockCache, calls, job, root, paramSpec, supplied, rule, infoVersion, earlier,
                 genLog, specItem, resVars>>
  /\ UNCHANGED <<nextVal, selected>>
  /\ LET f == Top
         cacheItem == BuildCacheItem(f.example, GetRequiredProperties(defs, f.spec))
     IN /\ visitedSets' = SetVisited(f.vis, RemoveFromSet(f.schema, visitedSets[f.vis]))
        /\ payloadCache' = CheckAndCache(payloadCache, f.schema, cacheItem)
        /\ Return(Rest, cacheItem)

\* lines 274-298: backtrack, wrap into a cache item, cache, return
Finish ==
  /\ status = "running"
  /\ stack # <<>>
  /\ Top.pc = "finish"
  /\ UNCHANGED machineFrame
  /\ UNCHANGED <<nextVal, selected>>
  /\ LET f == Top
         cacheItem == BuildCacheItem(f.example, GetRequiredProperties(defs, f.spec))
     IN /\ visitedSets' = SetVisited(f.vis, RemoveFromSet(f.schema, visitedSets[f.vis]))
        /\ mockCache' = CheckAndCache(mockCache, f.schema, cacheItem)
        /\ Return(Rest, cacheItem)

\* lines 350-351 and 221-224: mockForDiscriminator returns the subtype's item
DiscriminatorReturn ==
  /\ status = "running"
  /\ stack # <<>>
  /\ Top.pc = "disc_ret"
  /\ UNCHANGED machineFrame
  /\ UNCHANGED <<mockCache, nextVal, selected>>
  /\ LET f == Top
     IN /\ visitedSets' = SetVisited(f.vis, RemoveFromSet(f.spec, visitedSets[f.vis]))
        /\ Return(Rest, f.held)

\* lines 55-57: getMockCachedObj, a top-level call with an empty visited set
GetMockCachedObj ==
  /\ status \in {"idle", "done"}
  /\ calls < MaxCalls
  /\ \E n \in DOMAIN defs, isRequest \in BOOLEAN :
       /\ stack' = <<Frame("obj", RefS(n), Undef, 1, isRequest, "")>>
       /\ root' = n
  /\ visitedSets' = <<{}>>
  /\ status' = "running"
  /\ job' = "top"
  /\ calls' = calls + 1
  /\ UNCHANGED <<defs, payloadCache, mockCache, result, nextVal, selected, reqVars, resVars>>

\* ------------------------------------------------------------------------
\* mockRequest
\* ------------------------------------------------------------------------
Param(name, schema) == [t |-> "param", name |-> name, schema |-> schema]

\* a validator that is never consulted
AllowedAlways(name) == TRUE

\* getRuleValidator(exampleRule).onParameter: absent, or a predicate
Allowed(name) == ~rule.has \/ name \notin rule.rejects

RgValue == Const("rg+rp")

\* lines 113-116: the parameter names that bypass the generator
SpecialCaseNone(name) == IF name = "resourceGroupName" THEN "rg" ELSE "none"

SpecialCase(name) ==
  IF name = "resourceGroupName" THEN "rg"
  ELSE IF name = "api-version" THEN "version"
  ELSE "none"

\* lines 106-157: one iteration of the loop over the declared parameters
MockRequestStep ==
  /\ status = "request"
  /\ UNCHANGED <<defs, payloadCache, mockCache, nextVal, calls, selected, job, root,
                 paramSpec, supplied, rule, infoVersion, earlier, result, specItem, respExample, ridx,
                 resVars>>
  /\ LET element == paramSpec[pidx]
         paramEle == ResolveRefObj(defs, element)
         visited == GetDefSpecVisited(element, {})
         skip == /\ pidx' = pidx + 1
                 /\ status' = AfterParam
                 /\ UNCHANGED <<stack, visitedSets, genLog>>
     IN IF SpecialCase(paramEle.name) = "rg"
        THEN /\ paramExample' = Put(paramExample, "resourceGroupName", RawScalar(RgValue))
             /\ skip
        ELSE IF SpecialCase(paramEle.name) = "version"
        THEN /\ paramExample' = Put(paramExample, "api-version", RawScalar(Const(infoVersion)))
             /\ skip
        ELSE IF paramEle.schema.t # "none"
        THEN IF Allowed(paramEle.name)
             THEN /\ stack' = <<Frame(paramEle.name, paramEle.schema,
                                      IF Truthy(Child(RawObj(paramExample), paramEle.name))
                                      THEN Child(RawObj(paramExample), paramEle.name)
                                      ELSE RawObj(<<>>),
                                      1, TRUE, "")>>
                  /\ visitedSets' = <<visited>>
                  /\ status' = "running"
                  /\ genLog' = Append(genLog, paramEle.name)
                  /\ UNCHANGED <<paramExample, pidx>>
             ELSE /\ skip
                  /\ UNCHANGED paramExample
        ELSE IF Has(paramExample, paramEle.name) \/ ~Allowed(paramEle.name)
        THEN /\ skip
             /\ UNCHANGED paramExample
        ELSE /\ stack' = <<Frame(paramEle.name, element, Child(RawObj(paramExample), paramEle.name),
                                 1, TRUE, "")>>
             /\ visitedSets' = <<{}>>
             /\ status' = "running"
             /\ genLog' = Append(genLog, paramEle.name)
             /\ UNCHANGED <<paramExample, pidx>>

\* line 51 of mockForExample: mockRequest is started on the declared parameters
MockRequest ==
  /\ status = "idle"
  /\ paramSpec # <<>>
  /\ status' = "request"
  /\ job' = "request"
  /\ calls' = calls + 1
  /\ UNCHANGED <<defs, payloadCache, mockCache, stack, visitedSets, result, nextVal,
                 selected, root, reqVars, resVars>>

\* ------------------------------------------------------------------------
\* mockForExample
\* ------------------------------------------------------------------------
\* a declared response: its schema, SchemaAbsent when it has no schema key
Response(schema) == [schema |-> schema]

SchemaAbsent == [t |-> "absent"]

\* line 36 with an empty list
PreHandledNone == {}

\* line 36
PreHandledStatusCode == {"200", "201", "202", "204"}

\* the number an integer-like key stands for; Object.keys lists such keys in
\* ascending order before the others
CodeNumber(statusCode) ==
  CASE statusCode = "200" -> 200
    [] statusCode = "201" -> 201
    [] statusCode = "202" -> 202
    [] statusCode = "204" -> 204
    [] statusCode = "404" -> 404
    [] OTHER -> 1000

\* example.responses[statusCode] = v
RECURSIVE SetResponse(_, _, _)
SetResponse(responses, statusCode, v) ==
  IF responses = <<>> THEN << <<statusCode, v>> >>
  ELSE IF responses[1][1] = statusCode THEN << <<statusCode, v>> >> \o Tail(responses)
  ELSE IF CodeNumber(statusCode) < CodeNumber(responses[1][1])
  THEN << <<statusCode, v>> >> \o responses
  ELSE <<responses[1]>> \o SetResponse(Tail(responses), statusCode, v)

\* lines 38-50: the slots of the declared status codes, starting at codes[i]
RECURSIVE BackFill(_, _, _, _)
BackFill(responses, codes, i, wasEmpty) ==
  IF i > Len(codes) THEN responses
  ELSE IF codes[i] # "default" /\ (wasEmpty \/ codes[i] \notin PreHandledStatusCode)
  THEN BackFill(SetResponse(responses, codes[i], RawObj(<<>>)), codes, i + 1, wasEmpty)
  ELSE BackFill(responses, codes, i + 1, wasEmpty)

\* lines 35-51: the slots are filled; mockRequest starts, or with no declared
\* parameter returns at once
MockForExample ==
  /\ status = "idle"
  /\ job = "example"
  /\ calls' = calls + 1
  /\ respExample' = BackFill(respExample, Keys(specItem.responses), 1, respExample = <<>>)
  /\ status' = IF paramSpec # <<>> THEN "request"
                ELSE IF respExample' # <<>> THEN "response"
                ELSE "done"
  /\ UNCHANGED <<defs, payloadCache, mockCache, stack, visitedSets, result, nextVal,
                 selected, job, root, paramSpec, paramExample, supplied, pidx, rule,
                 infoVersion, earlier, genLog, specItem, ridx, resVars>>

\* lines 60-87: one iteration of the loop of mockResponse, up to the call of
\* mockObj for the body
MockEachResponse ==
  /\ status = "response"
  /\ UNCHANGED <<defs, payloadCache, mockCache, result, nextVal, calls, selected, job, root,
                 paramSpec, paramExample, supplied, pidx, rule, infoVersion, earlier, genLog, specItem,
                 resVars>>
  /\ LET statusCode == respExample[ridx][1]
         responseExample == respExample[ridx][2]
         next(v) == /\ respExample' = Put(respExample, statusCode, v)
                    /\ ridx' = ridx + 1
                    /\ status' = AfterResponse
                    /\ UNCHANGED <<stack, visitedSets>>
     IN IF ~Allowed(statusCode)
        THEN next(Undef)
        ELSE IF ~Has(specItem.responses, statusCode)
        THEN /\ status' = "threw"
             /\ UNCHANGED <<respExample, ridx, stack, visitedSets>>
        ELSE IF Get(specItem.responses, statusCode).schema = SchemaAbsent
        THEN next(RawObj(<< <<"headers", ResponseHeaders(responseExample, statusCode)>>,
                            <<"body", Undef>> >>))
        ELSE /\ stack' = <<Frame("response body", Get(specItem.responses, statusCode).schema,
                                 IF Truthy(Child(responseExample, "body"))
                                 THEN Child(responseExample, "body")
                                 ELSE RawObj(<<>>),
                                 1, FALSE, "")>>
             /\ visitedSets' = <<{}>>
             /\ status' = "running"
             /\ UNCHANGED <<respExample, ridx>>

\* ------------------------------------------------------------------------
\* Documents
\* ------------------------------------------------------------------------
DiscriminatorChoices ==
  {[disc |-> "", map |-> <<>>, enum |-> <<>>]} \cup
  {[disc |-> "kind", map |-> m, enum |-> e] :
     m \in {<< <<"B", RefS("B")>> >>, << <<"A", RefS("A")>>, <<"B", RefS("B")>> >>},
     e \in {<<>>, <<"B", "A">>, <<"X">>}}

Optional(name, schemas) == {<<>>} \cup {<< <<name, sch>> >> : sch \in schemas}

\* O refers to A and B; A may carry a discriminator; B may compose A
GenDoc(sp, sq, oaddl, r, dc, ballOf, bs) ==
  [n \in {"O", "A", "B"} |->
     IF n = "O" THEN ObjS(<< <<"p", sp>>, <<"q", sq>> >>, <<>>, "", <<>>, oaddl, <<>>)
     ELSE IF n = "A"
     THEN ObjS(<< <<"kind", PrimS(dc.enum)>> >> \o r, <<>>, dc.disc, dc.map, AddlAbsent, <<"kind">>)
     ELSE ObjS(bs, ballOf, "", <<>>, AddlAbsent, <<>>)]

GenDocs ==
  {GenDoc(sp, sq, oaddl, r, dc, ballOf, bs) :
     sp \in {PrimS(<<>>), RefS("A"), RefS("B")},
     sq \in {RefS("A"), RefS("B"), ArrS(RefS("A"))},
     oaddl \in {AddlAbsent, PrimS(<<>>)},
     r \in Optional("r", {RefS("A"), RefS("B")}),
     dc \in DiscriminatorChoices,
     ballOf \in {<<>>, <<"A">>},
     bs \in Optional("s", {PrimS(<<>>), RefS("A"), RefS("B"), ArrS(RefS("A"))})}

\* a real example held by the payload cache
RealItem == MkVal("trunk", NoVal, << <<"kind", MkVal("leaf", Const("real"), <<>>, <<>>, FALSE)>> >>, <<>>, FALSE)

\* an item an earlier generation left in the mock cache
MockedItem == MkVal("trunk", NoVal, << <<"kind", MkVal("leaf", Const("mocked"), <<>>, <<>>, TRUE)>> >>, <<>>, TRUE)

NoCache(d) == [n \in DOMAIN d |-> Undef]

\* the caches the caller hands to the constructor: <<payload cache, mock cache>>
GivenCaches(d) ==
  {<<NoCache(d), NoCache(d)>>,
   <<[NoCache(d) EXCEPT !["A"] = RealItem], NoCache(d)>>,
   <<[NoCache(d) EXCEPT !["A"] = RealItem], [NoCache(d) EXCEPT !["A"] = MockedItem]>>}

\* ------------------------------------------------------------------------
\* Generation started by getMockCachedObj
\* ------------------------------------------------------------------------
\* resolveRelativePaths has nothing to include
InclusionIdle ==
  /\ docsCache = <<>>
  /\ objects = <<>>
  /\ specDefinitions = <<>>
  /\ visitedEntities = {}
  /\ work = <<>>
  /\ copies = <<>>
  /\ ipc = "idle"
  /\ loading = {}

\* no pass of resolve is running
PassesIdle ==
  /\ definitions = <<>>
  /\ order = <<>>
  /\ paths = {}
  /\ xmsPaths = {}
  /\ opParams = <<>>
  /\ hostParams = <<>>
  /\ respSchema = NoSchema
  /\ resolvedAllOfModels = {}
  /\ subTreeMap = <<>>
  /\ references = {}
  /\ rpc = "idle"
  /\ idx = 1
  /\ run = 1
  /\ firstResult = <<>>
  /\ original = <<>>
  /\ options = <<>>
  /\ passLog = <<>>
  /\ raised = <<>>
  /\ thrown = <<>>
  /\ mergeLog = <<>>
  /\ buildLog = <<>>

\* no resolver is running
ResolverIdle == PassesIdle /\ InclusionIdle

GenInit ==
  /\ defs \in GenDocs
  /\ \E given \in GivenCaches(defs) :
       /\ payloadCache = given[1]
       /\ mockCache = given[2]
  /\ stack = <<>>
  /\ visitedSets = <<{}>>
  /\ status = "idle"
  /\ result = Undef
  /\ nextVal = 0
  /\ calls = 0
  /\ selected = [n \in DOMAIN defs |-> {}]
  /\ job = "top"
  /\ root = ""
  /\ paramSpec = <<>>
  /\ paramExample = <<>>
  /\ supplied = <<>>
  /\ pidx = 1
  /\ rule = [has |-> FALSE, rejects |-> {}]
  /\ infoVersion = ""
  /\ earlier = NoEarlier
  /\ genLog = <<>>
  /\ specItem = NoSpecItem
  /\ respExample = <<>>
  /\ ridx = 1
  /\ ResolverIdle

GenNext ==
  \/ GetMockCachedObj
  \/ Enter
  \/ NextProperty
  \/ AdditionalProperties
  \/ Finish
  \/ DiscriminatorReturn

GenSpec == GenInit /\ [][GenNext]_vars

\* ------------------------------------------------------------------------
\* Two generators on one document, the top-level calls in opposite orders
\* ------------------------------------------------------------------------
\* the top-level calls of the first generator, in order; the second one
\* makes the same calls in the opposite order
Plans == {<<x, y>> : x \in {"O", "A", "B"}, y \in {"O", "A", "B"}} \ {<<x, x>> : x \in {"O", "A", "B"}}

OrderDocs ==
  {GenDoc(PrimS(<<>>), RefS("A"), AddlAbsent, r, dc, ballOf, bs) :
     r \in Optional("r", {RefS("A"), RefS("B")}),
     dc \in {[disc |-> "", map |-> <<>>, enum |-> <<>>],
             [disc |-> "kind", map |-> << <<"B", RefS("B")>> >>, enum |-> <<>>]},
     ballOf \in {<<>>, <<"A">>},
     bs \in Optional("s", {PrimS(<<>>), RefS("A")})}

\* the reference the next top-level call is made on
PlannedRoot ==
  IF earlier.instance = 1 THEN earlier.plan[calls + 1]
  ELSE earlier.plan[Len(earlier.plan) - calls]

\* lines 55-57: getMockCachedObj on the reference the plan names next
GetMockCachedObjPlanned ==
  /\ calls < Len(earlier.plan)
  /\ GetMockCachedObj
  /\ root' = PlannedRoot

\* lines 24-29: the constructor is given new caches for the same document
\* when the first generator has made its calls
NewSwaggerMocker ==
  /\ status = "done"
  /\ earlier.instance = 1
  /\ calls = Len(earlier.plan)
  /\ earlier' = [earlier EXCEPT !.instance = 2, !.cache = mockCache]
  /\ mockCache' = NoCache(defs)
  /\ payloadCache' = NoCache(defs)
  /\ status' = "idle"
  /\ calls' = 0
  /\ nextVal' = 0
  /\ result' = Undef
  /\ root' = ""
  /\ visitedSets' = <<{}>>
  /\ selected' = [n \in DOMAIN defs |-> {}]
  /\ UNCHANGED <<defs, stack, job, paramSpec, paramExample, supplied, pidx, rule, infoVersion,
                 genLog, specItem, respExample, ridx, resVars>>

OrderInit ==
  /\ defs \in OrderDocs
  /\ payloadCache = NoCache(defs)
  /\ mockCache = NoCache(defs)
  /\ stack = <<>>
  /\ visitedSets = <<{}>>
  /\ status = "idle"
  /\ result = Undef
  /\ nextVal = 0
  /\ calls = 0
  /\ selected = [n \in DOMAIN defs |-> {}]
  /\ job = "top"
  /\ root = ""
  /\ paramSpec = <<>>
  /\ paramExample = <<>>
  /\ supplied = <<>>
  /\ pidx = 1
  /\ rule = [has |-> FALSE, rejects |-> {}]
  /\ infoVersion = ""
  /\ earlier \in {[plan |-> p, instance |-> 1, cache |-> <<>>] : p \in Plans}
  /\ genLog = <<>>
  /\ specItem = NoSpecItem
  /\ respExample = <<>>
  /\ ridx = 1
  /\ ResolverIdle

OrderNext ==
  \/ GetMockCachedObjPlanned
  \/ NewSwaggerMocker
  \/ Enter
  \/ NextProperty
  \/ AdditionalProperties
  \/ Finish
  \/ DiscriminatorReturn

OrderSpec == OrderInit /\ [][OrderNext]_vars

\* ------------------------------------------------------------------------
\* Generation started by mockRequest
\* ------------------------------------------------------------------------
\* longest declared parameter list
MaxParams == 2

ParamElements ==
  {Param("api-version", NoSchema), RefS("ApiVersionParameter"),
   Param("resourceGroupName", NoSchema), Param("parameters", RefS("A")),
   Param("top", NoSchema)}

ParamLists == UNION {[1..n -> ParamElements] : n \in 1..MaxParams}

SuppliedValue == RawScalar(Const("supplied"))

\* a supplied 0, false or empty string
FalsyValue == RawScalar(NoVal)

SuppliedExamples ==
  {<<>>, << <<"api-version", SuppliedValue>> >>, << <<"top", SuppliedValue>> >>,
   << <<"parameters", RawObj(<< <<"kind", SuppliedValue>> >>)>> >>,
   << <<"parameters", RawObj(<< <<"kind", FalsyValue>> >>)>> >>}

Rules ==
  {[has |-> FALSE, rejects |-> {}]} \cup
  {[has |-> TRUE, rejects |-> r] :
     r \in {{}, {"api-version"}, {"parameters", "top"}, {"api-version", "parameters", "top"}}}

\* aaddl: A without additionalProperties, or with additionalProperties: true
ReqDoc(dc, aaddl) ==
  [n \in {"A", "B", "ApiVersionParameter"} |->
     IF n = "A"
     THEN ObjS(<< <<"kind", PrimS(dc.enum)>> >>, <<>>, dc.disc, dc.map, aaddl, <<"kind">>)
     ELSE IF n = "B"
     THEN ObjS(<< <<"s", PrimS(<<>>)>> >>, <<"A">>, "", <<>>, AddlAbsent, <<>>)
     ELSE Param("api-version", NoSchema)]

ReqDocs ==
  {ReqDoc(dc, aaddl) :
     dc \in {[disc |-> "", map |-> <<>>, enum |-> <<>>],
             [disc |-> "kind", map |-> << <<"B", RefS("B")>> >>, enum |-> <<>>]},
     aaddl \in {AddlAbsent, NoSchema}}

CachedVersion == MkVal("leaf", Const("cached"), <<>>, <<>>, FALSE)

ReqInit ==
  /\ defs \in ReqDocs
  /\ payloadCache \in {NoCache(defs),
                       [NoCache(defs) EXCEPT !["ApiVersionParameter"] = CachedVersion]}
  /\ mockCache = NoCache(defs)
  /\ stack = <<>>
  /\ visitedSets = <<{}>>
  /\ status = "idle"
  /\ result = Undef
  /\ nextVal = 0
  /\ calls = 0
  /\ selected = [n \in DOMAIN defs |-> {}]
  /\ job = "request"
  /\ root = ""
  /\ paramSpec \in ParamLists
  /\ supplied \in SuppliedExamples
  /\ paramExample = supplied
  /\ pidx = 1
  /\ rule \in Rules
  /\ infoVersion \in {"2018-01-01", "2020-06-01-preview"}
  /\ earlier = NoEarlier
  /\ genLog = <<>>
  /\ specItem = NoSpecItem
  /\ respExample = <<>>
  /\ ridx = 1
  /\ ResolverIdle

ReqNext ==
  \/ MockRequest
  \/ MockRequestStep
  \/ Enter
  \/ NextProperty
  \/ AdditionalProperties
  \/ Finish
  \/ DiscriminatorReturn

ReqSpec == ReqInit /\ [][ReqNext]_vars

\* ------------------------------------------------------------------------
\* Generation started by mockForExample
\* ------------------------------------------------------------------------
\* specItem.content.responses with the polling attribute of the operation
SpecItems ==
  {[responses |-> r, pollingAttr |-> a] :
     r \in {<< <<"200", Response(RefS("A"))>> >>,
            << <<"200", Response(RefS("A"))>>, <<"404", Response(SchemaAbsent)>> >>,
            << <<"201", Response(RefS("B"))>>, <<"default", Response(RefS("A"))>> >>},
     a \in {"", "location"}}

\* example.responses as the caller supplies it
ResponseExamples ==
  {<<>>,
   << <<"200", RawObj(<< <<"body", RawObj(<< <<"kind", SuppliedValue>> >>)>> >>)>> >>,
   << <<"200", RawObj(<<>>)>>, <<"404", RawObj(<<>>)>> >>,
   << <<"404", RawObj(<<>>)>> >>,
   << <<"404", RawObj(<< <<"body", RawObj(<< <<"kind", SuppliedValue>> >>)>> >>)>> >>,
   << <<"201", RawObj(<< <<"headers", RawObj(<< <<"retry-after", SuppliedValue>> >>)>> >>)>> >>,
   << <<"201", RawObj(<< <<"hearders", RawObj(<< <<"retry-after", SuppliedValue>> >>)>> >>)>> >>}

ExampleInit ==
  /\ defs \in ReqDocs
  /\ payloadCache = NoCache(defs)
  /\ mockCache = NoCache(defs)
  /\ stack = <<>>
  /\ visitedSets = <<{}>>
  /\ status = "idle"
  /\ result = Undef
  /\ nextVal = 0
  /\ calls = 0
  /\ selected = [n \in DOMAIN defs |-> {}]
  /\ job = "example"
  /\ root = ""
  /\ paramSpec \in {<<>>, <<Param("top", NoSchema)>>, <<Param("parameters", RefS("A"))>>}
  /\ supplied = <<>>
  /\ paramExample = supplied
  /\ pidx = 1
  /\ rule \in {[has |-> FALSE, rejects |-> {}], [has |-> TRUE, rejects |-> {}],
               [has |-> TRUE, rejects |-> {"404"}], [has |-> TRUE, rejects |-> {"headers"}],
               [has |-> TRUE, rejects |-> {"404", "parameters", "top"}]}
  /\ infoVersion = "2018-01-01"
  /\ earlier = NoEarlier
  /\ genLog = <<>>
  /\ specItem \in SpecItems
  /\ respExample \in ResponseExamples
  /\ ridx = 1
  /\ ResolverIdle

ExampleNext ==
  \/ MockForExample
  \/ MockRequestStep
  \/ MockEachResponse
  \/ Enter
  \/ NextProperty
  \/ AdditionalProperties
  \/ Finish
  \/ DiscriminatorReturn

ExampleSpec == ExampleInit /\ [][ExampleNext]_vars

\* ------------------------------------------------------------------------
\* Properties of generation
\* ------------------------------------------------------------------------
\* definitions a schema refers to, directly or as the item of an array
Target(sch) ==
  IF sch.t = "ref" THEN {sch.ref}
  ELSE IF sch.t = "array" /\ sch.items.t = "ref" THEN {sch.items.ref}
  ELSE {}

PropertiesOf(d, n) == IF d[n].t = "object" THEN GetProperties(d, d[n]) ELSE <<>>

Refs(d, n) == UNION {Target(PropertiesOf(d, n)[i][2]) : i \in DOMAIN PropertiesOf(d, n)}

RECURSIVE ReachIn(_, _, _)
ReachIn(d, S, k) ==
  IF k = 0 THEN S ELSE ReachIn(d, S \cup UNION {Refs(d, n) : n \in S}, k - 1)

\* the definitions reachable from n over one or more references
Reach(d, n) == ReachIn(d, Refs(d, n), Cardinality(DOMAIN d))

OnCycle(d, n) == n \in Reach(d, n)

NoDiscriminator(d) == \A n \in DOMAIN d : d[n].t = "object" => d[n].disc = ""

\* no array property lies on a reference cycle
CyclesThroughPropertiesOnly(d) ==
  \A n \in DOMAIN d : \A i \in DOMAIN PropertiesOf(d, n) :
    LET sch == PropertiesOf(d, n)[i][2]
    IN sch.t = "array" => \A m \in Target(sch) : n \notin Reach(d, m) \cup {m}

\* in the item generated for a schema, every property that refers to a
\* definition on the path from the root holds undefined
RECURSIVE Closed(_, _, _)
RECURSIVE Descend(_, _, _)
Descend(item, spec, path) ==
  IF item.kind = "undef" THEN TRUE
  ELSE IF spec.t = "object"
  THEN \A i \in DOMAIN GetProperties(defs, spec) :
         Has(item.children, GetProperties(defs, spec)[i][1])
         => Closed(Get(item.children, GetProperties(defs, spec)[i][1]),
                   GetProperties(defs, spec)[i][2], path)
  ELSE IF spec.t = "array"
  THEN \A i \in DOMAIN item.children : Closed(item.children[i][2], spec.items, path)
  ELSE TRUE

Closed(item, schema, path) ==
  IF schema.t = "ref"
  THEN IF schema.ref \in path THEN item = Undef
       ELSE Descend(item, defs[schema.ref], path \cup {schema.ref})
  ELSE Descend(item, schema, path)

C1Graph ==
  /\ job = "top"
  /\ NoDiscriminator(defs)
  /\ CyclesThroughPropertiesOnly(defs)
  /\ payloadCache = NoCache(defs)

\* C1: for a graph whose cycles run through object properties only, without
\* discriminator and without cyclic allOf, a top-level generation call does
\* not recurse without bound, and in the item it returns every property that
\* closes a cycle (refers to a definition on the path from the root) is
\* undefined.
C1_CycleClosedByUndefined ==
  C1Graph => /\ status # "overflow"
             /\ status = "done" => Closed(result, RefS(root), {})

\* the subtype that branch selection takes for base n
ChosenSubtype(d, n) ==
  LET kind == Get(GetProperties(d, d[n]), d[n].disc)
      value == IF kind.enum # <<>> THEN kind.enum[1] ELSE d[n].discMap[1][1]
  IN IF Has(d[n].discMap, value) THEN {Get(d[n].discMap, value).ref} ELSE {}

\* the chosen subtype refers back to its base, directly or through an array
SubtypeRefersToBase(d) ==
  \E n \in DOMAIN d :
    /\ d[n].t = "object"
    /\ d[n].disc # ""
    /\ d[n].discMap # <<>>
    /\ \E sub \in ChosenSubtype(d, n) :
         /\ sub # n
         /\ \E i \in DOMAIN PropertiesOf(d, sub) : n \in Target(PropertiesOf(d, sub)[i][2])

\* C2: a top-level generation call terminates when the subtype chosen by
\* branch selection refers back to its polymorphic base, as a direct property
\* or through the item schema of an array property.
C2_TerminatesOnBackReference ==
  (job = "top" /\ SubtypeRefersToBase(defs)) => status # "overflow"

\* C3: when two properties p and q of the generated object refer to the same
\* definition T that is on no reference cycle, both hold the same item after
\* the pass, and that item is not undefined.
C3_SameItemForBothOccurrences ==
  \A T \in DOMAIN defs :
    ( /\ job = "top"
      /\ status = "done"
      /\ root = "O"
      /\ Get(defs["O"].props, "p") = RefS(T)
      /\ Get(defs["O"].props, "q") = RefS(T)
      /\ ~OnCycle(defs, T) )
    => /\ Child(result, "p") = Child(result, "q")
       /\ Child(result, "p") # Undef

\* C4: whenever branch selection descends into a subtype of base n, it is the
\* subtype named by the first enum value of the discriminator property when an
\* enum is declared, else by the first key of the discriminator map; hence all
\* selections made for n, in any call and any cache state, agree.
C4_FirstValueSelected ==
  \A n \in DOMAIN defs : selected[n] # {} => selected[n] = ChosenSubtype(defs, n)

\* the enum decides against the first key of the map, in two calls
C4_Witness ==
  /\ calls = 2
  /\ status = "done"
  /\ selected["A"] = {"B"}
  /\ Get(defs["A"].props, "kind").enum = <<"B", "A">>
  /\ defs["A"].discMap[1][1] = "A"

\* C10: a declared parameter named api-version with no supplied value gets
\* info.version, whatever the rule validator says, and neither the generator
\* nor a cache is used for it.
C10_ApiVersionVerbatim ==
  \A i \in DOMAIN paramSpec :
    ( /\ job = "request"
      /\ status # "idle"
      /\ i < pidx
      /\ ParamName(paramSpec[i]) = "api-version"
      /\ ~Has(supplied, "api-version") )
    => /\ Child(RawObj(paramExample), "api-version") = RawScalar(Const(infoVersion))
       /\ \A j \in DOMAIN genLog : genLog[j] # "api-version"
       /\ mockCache["ApiVersionParameter"] = Undef

\* the validator rejects every parameter, the cache holds another value
C10_Witness ==
  /\ job = "request"
  /\ status = "done"
  /\ rule.has
  /\ "api-version" \in rule.rejects
  /\ payloadCache["ApiVersionParameter"] # Undef
  /\ supplied = <<>>
  /\ \E i \in DOMAIN paramSpec : paramSpec[i] = RefS("ApiVersionParameter")
  /\ Child(RawObj(paramExample), "api-version") = RawScalar(Const(infoVersion))

\* C11: a declared parameter whose name has a value in the supplied example
\* keeps that value after mockRequest has handled it, and the generator is
\* not invoked for it.
C11_SuppliedValueKept ==
  \A i \in DOMAIN paramSpec :
    ( /\ job = "request"
      /\ status # "idle"
      /\ i < pidx
      /\ Has(supplied, ParamName(paramSpec[i])) )
    => /\ Child(RawObj(paramExample), ParamName(paramSpec[i]))
            = Get(supplied, ParamName(paramSpec[i]))
       /\ \A j \in DOMAIN genLog : genLog[j] # ParamName(paramSpec[i])

\* the running invocation of mockCachedObj returns v to its caller in this step
ReturnsValue(v) ==
  IF Len(stack) = 1
  THEN stack' = <<>> /\ result' = v
  ELSE stack' = SetTop(Rest, Resume(Rest[Len(Rest)], v))

\* C12: an invocation of mockCachedObj on a reference whose key is in the
\* payload cache and in the mock cache returns the item of the payload cache,
\* synthesizes nothing and writes to neither cache.
C12_PayloadCacheFirst ==
  [][\A n \in DOMAIN defs :
       ( /\ status = "running"
         /\ stack # <<>>
         /\ Top.pc = "entry"
         /\ Top.schema = RefS(n)
         /\ payloadCache[n] # Undef
         /\ mockCache[n] # Undef )
       => /\ ReturnsValue(payloadCache[n])
          /\ mockCache' = mockCache
          /\ payloadCache' = payloadCache
          /\ nextVal' = nextVal]_vars

\* property p of O refers to A, which both caches hold with different items
C12_Witness ==
  /\ status = "done"
  /\ root = "O"
  /\ Get(defs["O"].props, "p") = RefS("A")
  /\ payloadCache["A"] = RealItem
  /\ mockCache["A"] = MockedItem
  /\ Child(result, "p") = RealItem

\* C13: once the mock cache holds an item under a key, no step stores
\* another item under it, no invocation reaches the cache insertion of lines
\* 292-298 for it, and every later invocation on a reference to it returns
\* the cached item (the payload cache not holding the key).
C13_MockCacheWriteOnce ==
  [][\A n \in DOMAIN defs :
       mockCache[n] # Undef =>
         /\ mockCache'[n] = mockCache[n]
         /\ ~(status = "running" /\ stack # <<>> /\ Top.pc = "finish" /\ Top.schema = RefS(n))
         /\ ( /\ status = "running"
              /\ stack # <<>>
              /\ Top.pc = "entry"
              /\ Top.schema = RefS(n)
              /\ payloadCache[n] = Undef )
            => ReturnsValue(mockCache[n])]_vars

\* C14: no step of a generation call adds, replaces or removes an entry of
\* the payload cache; entries are added to the mock cache only.
C14_PayloadCacheUntouched ==
  [][payloadCache' = payloadCache]_vars

\* a call has filled the mock cache next to a payload cache that holds A
C14_Witness ==
  /\ status = "done"
  /\ payloadCache["A"] = RealItem
  /\ mockCache["A"] = Undef
  /\ mockCache["B"] # Undef
  /\ mockCache["O"] # Undef

\* C18: an invocation of mockCachedObj on a schema that is missing or not an
\* object hands undefined to its caller, which goes on; neither cache and no
\* visited set changes.
C18_InvalidSchemaReturnsUndefined ==
  [][( /\ status = "running"
       /\ stack # <<>>
       /\ Top.pc = "entry"
       /\ Top.schema = NoSchema )
     => /\ ReturnsValue(Undef)
        /\ status' \in {"running", "request", "done"}
        /\ mockCache' = mockCache
        /\ payloadCache' = payloadCache
        /\ visitedSets' = visitedSets]_vars

\* the body parameter was generated from A with additionalProperties: true:
\* the extra key holds nothing and the declared property was generated
C18_Witness ==
  /\ status = "done"
  /\ defs["A"].addl = NoSchema
  /\ defs["A"].disc = ""
  /\ mockCache["A"] # Undef
  /\ Child(mockCache["A"], "k1") = Undef
  /\ Has(mockCache["A"].children, "k1")
  /\ Child(mockCache["A"], "kind") # Undef

\* C17: mockForExample does not throw, whatever example and operation it
\* gets: a call that was started goes on to its return.
C17_MockForExampleNeverThrows ==
  status # "threw"

\* ------------------------------------------------------------------------
\* SpecResolver: the document
\* ------------------------------------------------------------------------
\* a property schema: ref = "" without $ref, enum = <<>> and oneOf = <<>> when
\* absent, type = "" when absent; description tells declarations apart;
\* nullable holds once the schema has been widened to admit null
PropS(ref, enum, type, oneOf, description) ==
  [ref |-> ref, enum |-> enum, type |-> type, oneOf |-> oneOf, description |-> description,
   nullable |-> FALSE]

\* a model definition: allOf = <<>> when absent, discriminator = "" and
\* xms = "" (x-ms-discriminator-value) when absent, addl = "unset" when
\* additionalProperties is absent; resource is x-ms-azure-resource
Model(props, required, allOf, discriminator, xms, addl, type, resource) ==
  [props |-> props, required |-> required, allOf |-> allOf,
   discriminator |-> discriminator, xms |-> xms, addl |-> addl, type |-> type,
   enum |-> <<>>, resource |-> resource]

RECURSIVE DedupeFrom(_, _, _)
DedupeFrom(q, i, acc) ==
  IF i > Len(q) THEN acc
  ELSE DedupeFrom(q, i + 1, IF q[i] \in SeqToSet(acc) THEN acc ELSE Append(acc, q[i]))

\* [...new Set(q)]
Dedupe(q) == DedupeFrom(q, 1, <<>>)

\* utils.mergeObjects(source, target): the keys of source are added to
\* target; on a collision the entry of target stays
MergeObjects(source, target) == Spread(source, target)

\* lines 550-578, with the arguments of mergeObjects exchanged
MergeParentAllOfInChildParentWins(parent, child) ==
  [child EXCEPT !.props = MergeObjects(child.props, parent.props),
                !.required = IF parent.required # <<>>
                             THEN Dedupe(parent.required \o child.required) ELSE @,
                !.resource = IF parent.resource THEN parent.resource ELSE @]

\* lines 550-578
MergeParentAllOfInChild(parent, child) ==
  [child EXCEPT !.props = MergeObjects(parent.props, child.props),
                !.required = IF parent.required # <<>>
                             THEN Dedupe(parent.required \o child.required) ELSE @,
                !.resource = IF parent.resource THEN parent.resource ELSE @]

RECURSIVE ResolveAllOfInModel(_, _)
RECURSIVE MergeAllOfItems(_, _, _)
RECURSIVE MergeAllOfItemsShallow(_, _, _)
\* lines 521-531 without the recursive call on a parent that has an allOf
MergeAllOfItemsShallow(st, n, i) ==
  IF i > Len(st.defs[n].allOf) THEN st
  ELSE MergeAllOfItemsShallow(
         [st EXCEPT !.defs[n] = MergeParentAllOfInChild(st.defs[st.defs[n].allOf[i]], @),
                    !.resolved = @ \cup {st.defs[n].allOf[i]}],
         n, i + 1)

\* lines 521-531: st = [defs, resolved, log], the definitions, the keys of
\* resolvedAllOfModels, and the definitions whose allOf list was merged
MergeAllOfItems(st, n, i) ==
  IF i > Len(st.defs[n].allOf) THEN st
  ELSE LET parent == st.defs[n].allOf[i]
           st1 == IF st.defs[parent].allOf # <<>> THEN ResolveAllOfInModel(st, parent) ELSE st
       IN MergeAllOfItems(
            [st1 EXCEPT !.defs[n] = MergeParentAllOfInChild(st1.defs[parent], @),
                        !.resolved = @ \cup {parent}],
            n, i + 1)

\* lines 504-539
ResolveAllOfInModel(st, n) ==
  IF n \in st.resolved THEN st
  ELSE IF st.defs[n].allOf # <<>>
  THEN MergeAllOfItems([st EXCEPT !.log = Append(@, n)], n, 1)
  ELSE [st EXCEPT !.resolved = @ \cup {n}]

\* ------------------------------------------------------------------------
\* SpecResolver: polymorphic trees
\* ------------------------------------------------------------------------
\* lines 998-1031: the definitions with an allOf item that refers to name, in
\* the key order of the definitions
RECURSIVE FindChildrenFrom(_, _, _, _, _)
FindChildrenFrom(d, ord, name, i, acc) ==
  IF i > Len(ord) THEN acc
  ELSE FindChildrenFrom(d, ord, name, i + 1,
         IF name \in SeqToSet(d[ord[i]].allOf) THEN Append(acc, ord[i]) ELSE acc)

FindChildren(d, ord, name) == FindChildrenFrom(d, ord, name, 1, <<>>)

\* lines 944-954: a discriminator property that is a $ref takes the enum of
\* the definition it refers to and loses the $ref
Unref(d, prop) ==
  IF prop.ref # ""
  THEN [prop EXCEPT !.enum = IF @ = <<>> /\ prop.ref \in DOMAIN d THEN d[prop.ref].enum ELSE @,
                    !.ref = ""]
  ELSE prop

\* lines 970-977: the enum of the discriminator property
PinnedEnum(definition, prop, val) ==
  IF definition.discriminator # "" /\ prop.enum # <<>>
  THEN IF val \in SeqToSet(prop.enum) THEN prop.enum ELSE <<val>> \o prop.enum
  ELSE <<val>>

\* line 938 without x-ms-discriminator-value
WireNameIgnoresExtension(definition, name, discriminator) == name

\* line 938: x-ms-discriminator-value, else the name of the definition
WireName(definition, name, discriminator) ==
  IF definition.xms # "" THEN definition.xms ELSE name

\* lines 924-979: the definition after its discriminator value is pinned
Pin(d, name, discriminator) ==
  LET definition == [d[name] EXCEPT !.type = "object"]
  IN IF Has(definition.props, discriminator)
     THEN LET prop == Unref(d, Get(definition.props, discriminator))
              typed == [prop EXCEPT !.type = IF @ = "" THEN "string" ELSE @]
              val == WireName(definition, name, discriminator)
          IN [definition EXCEPT
                !.required = IF discriminator \in SeqToSet(@) THEN @ ELSE Append(@, discriminator),
                !.props = Put(@, discriminator,
                              [typed EXCEPT !.enum = PinnedEnum(definition, prop, val)])]
     ELSE definition

\* PolymorphicTree.addChildByObject: a child is kept once per name
AddChildByObject(children, childObj) ==
  IF \E i \in DOMAIN children : children[i].name = childObj.name
  THEN children ELSE Append(children, childObj)

\* lines 888-989: st = [defs, map, log], log being the names a node was
\* built for; the result also holds the node built
RECURSIVE CreatePolymorphicTree(_, _, _, _)
RECURSIVE AddChildren(_, _, _, _, _, _)
AddChildren(st, ord, discriminator, children, i, kids) ==
  IF i > Len(children)
  THEN [defs |-> st.defs, map |-> st.map, log |-> st.log, kids |-> kids]
  ELSE LET r == CreatePolymorphicTree(st, ord, children[i], discriminator)
       IN AddChildren([defs |-> r.defs, map |-> r.map, log |-> r.log], ord, discriminator,
                      children, i + 1, AddChildByObject(kids, r.node))

CreatePolymorphicTree(st, ord, name, discriminator) ==
  LET pinned == [st.defs EXCEPT ![name] = Pin(st.defs, name, discriminator)]
      r == AddChildren([defs |-> pinned, map |-> st.map, log |-> Append(st.log, name)], ord,
                       discriminator, FindChildren(pinned, ord, name), 1, <<>>)
      rootNode == [name |-> name, children |-> r.kids]
  IN [defs |-> r.defs, map |-> Put(r.map, name, rootNode), log |-> r.log, node |-> rootNode]

\* lines 1041-1050: the node's reference, then those of its children's trees
RECURSIVE BuildOneOfReferences(_)
RECURSIVE BuildOneOfChildren(_, _, _)
BuildOneOfChildren(children, i, acc) ==
  IF i > Len(children) THEN acc
  ELSE BuildOneOfChildren(children, i + 1, acc \o BuildOneOfReferences(children[i]))

BuildOneOfReferences(rootNode) ==
  BuildOneOfChildren(rootNode.children, 1, <<rootNode.name>>)

\* ------------------------------------------------------------------------
\* SpecResolver: reference sites
\* ------------------------------------------------------------------------
\* array indices as they appear in a JSON pointer
IdxStr(i) == <<"0", "1", "2", "3", "4", "5">>[i]

PropLoc(n, k) == <<"definitions", n, "properties", k>>

AllOfLoc(n, i) == <<"definitions", n, "allOf", IdxStr(i)>>

RespLoc == <<"paths", "/pets", "get", "responses", "200", "schema">>

\* the $ref entries below the schema at loc
SchemaRefs(loc, sch) ==
  (IF sch.ref # "" THEN {[loc |-> loc, uri |-> sch.ref]} ELSE {}) \cup
  {[loc |-> loc \o <<"oneOf", IdxStr(i)>>, uri |-> sch.oneOf[i]] : i \in DOMAIN sch.oneOf}

\* jsonRefs.findRefs(spec): location of every $ref with the name it points at
FindRefs(d, resp) ==
  UNION {UNION {SchemaRefs(PropLoc(n, d[n].props[i][1]), d[n].props[i][2]) :
                  i \in DOMAIN d[n].props} : n \in DOMAIN d}
  \cup UNION {{[loc |-> AllOfLoc(n, i), uri |-> d[n].allOf[i]] : i \in DOMAIN d[n].allOf} :
                n \in DOMAIN d}
  \cup SchemaRefs(RespLoc, resp)

\* the names of the document that hold another word inside them
SubstringFacts == {<<"oneOfPets", "oneOf">>}

\* key.indexOf(word) !== -1 for the pointer key of a location
KeyContains(loc, word) ==
  \E i \in DOMAIN loc : loc[i] = word \/ <<loc[i], word>> \in SubstringFacts

\* lines 852-860
LocationsToBeUpdated(node, refs) ==
  {r.loc : r \in {x \in refs : /\ x.uri = node.name
                               /\ ~KeyContains(x.loc, "allOf")
                               /\ ~KeyContains(x.loc, "oneOf")}}

\* lines 863-873: the schema at a location to be updated
WithOneOf(sch, node) == [sch EXCEPT !.ref = "", !.oneOf = BuildOneOfReferences(node)]

\* lines 848-874 for one node: doc = [defs, resp]
UpdateNode(doc, node, refs) ==
  IF node.children = <<>> THEN doc
  ELSE [defs |-> [n \in DOMAIN doc.defs |->
                    [doc.defs[n] EXCEPT !.props =
                       [i \in DOMAIN @ |->
                          IF PropLoc(n, @[i][1]) \in LocationsToBeUpdated(node, refs)
                          THEN <<@[i][1], WithOneOf(@[i][2], node)>> ELSE @[i]]]],
        resp |-> IF RespLoc \in LocationsToBeUpdated(node, refs)
                 THEN WithOneOf(doc.resp, node) ELSE doc.resp]

\* lines 840-876
RECURSIVE UpdateReferencesFrom(_, _, _, _)
UpdateReferencesFrom(doc, map, refs, i) ==
  IF i > Len(map) THEN doc
  ELSE UpdateReferencesFrom(UpdateNode(doc, map[i][2], refs), map, refs, i + 1)

UpdateReferencesWithOneOf(doc, map, refs) == UpdateReferencesFrom(doc, map, refs, 1)

\* ------------------------------------------------------------------------
\* SpecResolver: the passes of resolve
\* ------------------------------------------------------------------------
\* the part of the document the passes write
Document ==
  [definitions |-> definitions, paths |-> paths, opParams |-> opParams,
   respSchema |-> respSchema]

\* lines 187-217: the passes in the order resolve calls them
PassOrderCleanupFirst ==
  <<"verify", "unify", "relative", "nested", "allOf", "deleteAllOf", "discriminator",
    "additionalProperties", "host", "pureObjects", "nullable">>

\* lines 184-217 with the reference verification after unifyXmsPaths
PassOrderVerifySecond ==
  <<"unify", "verify", "relative", "nested", "allOf", "discriminator", "deleteAllOf",
    "additionalProperties", "host", "pureObjects", "nullable">>

PassOrder ==
  <<"verify", "unify", "relative", "nested", "allOf", "discriminator", "deleteAllOf",
    "additionalProperties", "host", "pureObjects", "nullable">>

\* lines 187-217: the option that guards a pass
PassEnabled(pass) ==
  CASE pass = "relative" -> options.shouldResolveRelativePaths
    [] pass = "allOf" -> options.shouldResolveAllOf
    [] pass = "discriminator" -> options.shouldResolveDiscriminator
    [] pass = "deleteAllOf" -> options.shouldResolveAllOf
    [] pass = "additionalProperties" -> options.shouldSetAdditionalPropertiesFalse
    [] pass = "host" -> options.shouldResolveParameterizedHost
    [] pass = "pureObjects" -> options.shouldResolvePureObjects
    [] pass = "nullable" -> options.shouldResolveNullableTypes
    [] OTHER -> TRUE

\* the pass resolve runs when pass has returned, "done" when none is left
After(pass) ==
  LET at == CHOOSE i \in DOMAIN PassOrder : PassOrder[i] = pass
      later == {i \in DOMAIN PassOrder : i > at /\ PassEnabled(PassOrder[i])}
  IN IF later = {} THEN "done"
     ELSE PassOrder[CHOOSE i \in later : \A j \in later : i <= j]

\* defaultIfUndefinedOrNull
DefaultIfUndefinedOrNull(v, d) == IF v = "unset" THEN d ELSE v = "on"

\* lines 127-174: the options as the constructor completes them; every given
\* option is "unset", "on" or "off", and the document has definitions
Constructor(given) ==
  LET allOf == IF given.shouldResolveDiscriminator = "on" THEN TRUE
               ELSE DefaultIfUndefinedOrNull(given.shouldResolveAllOf, TRUE)
  IN [shouldResolveRelativePaths |->
        DefaultIfUndefinedOrNull(given.shouldResolveRelativePaths, TRUE),
      shouldResolveAllOf |-> allOf,
      shouldSetAdditionalPropertiesFalse |->
        DefaultIfUndefinedOrNull(given.shouldSetAdditionalPropertiesFalse, allOf),
      shouldResolvePureObjects |->
        DefaultIfUndefinedOrNull(given.shouldResolvePureObjects, TRUE),
      shouldResolveDiscriminator |->
        DefaultIfUndefinedOrNull(given.shouldResolveDiscriminator, allOf),
      shouldResolveParameterizedHost |->
        DefaultIfUndefinedOrNull(given.shouldResolveParameterizedHost, TRUE),
      shouldResolveNullableTypes |->
        DefaultIfUndefinedOrNull(given.shouldResolveNullableTypes, allOf)]

\* ------------------------------------------------------------------------
\* SpecResolver: errors
\* ------------------------------------------------------------------------
\* a property that an object does not have
Absent == "<undefined>"

\* a thrown value: an object with the properties it has, or a string
ErrorObject(code, id, message, innerErrors) ==
  [t |-> "object", code |-> code, id |-> id, message |-> message,
   innerErrors |-> innerErrors]

ThrownString(text) ==
  [t |-> "string", code |-> Absent, id |-> Absent, message |-> Absent, innerErrors |-> <<>>,
   text |-> text]

NoError == [t |-> "none"]

\* C.ErrorCodes: name and id of the codes resolve uses
ErrorCodes ==
  [RefNotFoundError |-> [name |-> "REF_NOTFOUND_ERROR", id |-> "OAV113"],
   InternalError |-> [name |-> "INTERNAL_ERROR", id |-> "OAV100"]]

\* the truth value JavaScript gives a string property
TruthyText(text) == text \notin {"", Absent}

\* the text a template literal holds for a property
TemplateText(text) == IF text = Absent THEN "undefined" ELSE text

\* lines 218-231 with every caught value wrapped
CatchAlwaysWraps(err) ==
  ErrorObject(ErrorCodes.InternalError.name, ErrorCodes.InternalError.id,
              "internal error: " \o TemplateText(err.message), <<err>>)

\* lines 218-231: what the catch block of resolve throws for the caught err
Catch(err) ==
  IF err.t = "object" /\ TruthyText(err.id) /\ TruthyText(err.message)
  THEN err
  ELSE ErrorObject(ErrorCodes.InternalError.name, ErrorCodes.InternalError.id,
                   "internal error: " \o TemplateText(err.message), <<err>>)

\* jsonUtils.findUndefinedWithinDocRefs: the references that name no definition
FindUndefinedWithinDocRefs(d, resp) == {r \in FindRefs(d, resp) : r.uri \notin DOMAIN d}

\* the Map findUndefinedWithinDocRefs returns has one key for every pointer
\* that names no definition
UnresolvedRefs(d, resp) == {r.uri : r \in FindUndefinedWithinDocRefs(d, resp)}

\* the sequences that hold every member of a set once
Enumerations(set) ==
  {q \in [1..Cardinality(set) -> set] : \A i, j \in DOMAIN q : q[i] = q[j] => i = j}

\* lines 1058-1063 stopping at the first entry of the Map
ErrsDetailFirstOnly(keys, sites) ==
  {<<[path |-> r.loc, message |-> "JSON Pointer points to missing location:" \o r.uri]>> :
     r \in sites}

\* lines 1058-1063: one entry for every key of the Map, with the path the Map
\* holds for it, in the order of the Map
ErrsDetail(keys, sites) ==
  UNION {{[i \in DOMAIN q |->
             [path |-> pathOf[q[i]],
              message |-> "JSON Pointer points to missing location:" \o q[i]]] :
            pathOf \in {f \in [keys -> {r.loc : r \in sites}] :
                          \A k \in keys : [loc |-> f[k], uri |-> k] \in sites}} :
           q \in Enumerations(keys)}

\* lines 1055-1071; the error thrown at line 1069 passes the catch block of
\* resolve (lines 218-231)
VerifyInternalReference ==
  /\ rpc = "verify"
  /\ LET sites == FindUndefinedWithinDocRefs(definitions, respSchema)
         keys == UnresolvedRefs(definitions, respSchema)
     IN IF keys # {}
        THEN \E errsDetail \in ErrsDetail(keys, sites) :
               /\ raised' = ErrorObject(ErrorCodes.RefNotFoundError.name,
                                        ErrorCodes.RefNotFoundError.id,
                                        "Reference could not be resolved", errsDetail)
               /\ thrown' = Catch(raised')
               /\ rpc' = "failed"
        ELSE /\ rpc' = After("verify")
             /\ UNCHANGED <<raised, thrown>>
  /\ passLog' = Append(passLog, "verify")
  /\ UNCHANGED <<definitions, order, paths, xmsPaths, opParams, hostParams, respSchema,
                 resolvedAllOfModels, subTreeMap, references, idx, run, firstResult, original,
                 options>>
  /\ UNCHANGED <<genVars, reqVars, incVars, mergeLog, buildLog>>

\* lines 299-313: the operations of x-ms-paths are added to paths
UnifyXmsPaths ==
  /\ rpc = "unify"
  /\ paths' = paths \cup xmsPaths
  /\ rpc' = After("unify")
  /\ UNCHANGED <<definitions, order, xmsPaths, opParams, hostParams, respSchema,
                 resolvedAllOfModels, subTreeMap, references, idx, run, firstResult, original>>
  /\ passLog' = Append(passLog, "unify")
  /\ UNCHANGED <<options, raised, thrown>>
  /\ UNCHANGED <<genVars, reqVars, incVars, mergeLog, buildLog>>

\* lines 190-192: the document holds no relative reference, so the step
\* leaves it as it is
ResolveRelativePaths ==
  /\ rpc = "relative"
  /\ rpc' = After("relative")
  /\ idx' = 1
  /\ UNCHANGED <<definitions, order, paths, xmsPaths, opParams, hostParams, respSchema,
                 resolvedAllOfModels, subTreeMap, references, run, firstResult, original>>
  /\ passLog' = Append(passLog, "relative")
  /\ UNCHANGED <<options, raised, thrown>>
  /\ UNCHANGED <<genVars, reqVars, incVars, mergeLog, buildLog>>

\* line 194: the document holds no nested definition, so the step leaves it
\* as it is
ResolveNestedDefinitions ==
  /\ rpc = "nested"
  /\ rpc' = After("nested")
  /\ passLog' = Append(passLog, "nested")
  /\ UNCHANGED <<definitions, order, paths, xmsPaths, opParams, hostParams, respSchema,
                 resolvedAllOfModels, subTreeMap, references, idx, run, firstResult, original,
                 options, raised, thrown>>
  /\ UNCHANGED <<genVars, reqVars, incVars, mergeLog, buildLog>>

\* lines 491-498: one iteration of the loop over the definitions
ResolveAllOfInDefinitions ==
  /\ rpc = "allOf"
  /\ idx <= Len(order)
  /\ LET st == ResolveAllOfInModel([defs |-> definitions, resolved |-> resolvedAllOfModels,
                                    log |-> IF idx = 1 THEN <<>> ELSE mergeLog],
                                   order[idx])
     IN /\ definitions' = st.defs
        /\ resolvedAllOfModels' = st.resolved
        /\ mergeLog' = st.log
  /\ IF idx = Len(order)
     THEN rpc' = After("allOf") /\ idx' = 1
     ELSE rpc' = rpc /\ idx' = idx + 1
  /\ UNCHANGED <<order, paths, xmsPaths, opParams, hostParams, respSchema,
                 subTreeMap, references, run, firstResult, original>>
  /\ passLog' = IF idx = 1 THEN Append(passLog, "allOf") ELSE passLog
  /\ UNCHANGED <<options, raised, thrown>>
  /\ UNCHANGED <<genVars, reqVars, incVars, buildLog>>

\* lines 753-772: one iteration of the loop over the definitions; the first
\* one follows lines 756-757
ResolveDiscriminator ==
  /\ rpc = "discriminator"
  /\ idx <= Len(order)
  /\ LET refs == IF idx = 1 THEN FindRefs(definitions, respSchema) ELSE references
         map0 == IF idx = 1 THEN <<>> ELSE subTreeMap
         log0 == IF idx = 1 THEN <<>> ELSE buildLog
         modelName == order[idx]
         discriminator == definitions[modelName].discriminator
     IN /\ references' = refs
        /\ IF discriminator # ""
           THEN LET r == IF Has(map0, modelName)
                         THEN [defs |-> definitions, map |-> map0, log |-> log0]
                         ELSE CreatePolymorphicTree([defs |-> definitions, map |-> map0,
                                                     log |-> log0],
                                                    order, modelName, discriminator)
                    doc == UpdateReferencesWithOneOf([defs |-> r.defs, resp |-> respSchema],
                                                     r.map, refs)
                IN /\ definitions' = doc.defs
                   /\ respSchema' = doc.resp
                   /\ subTreeMap' = r.map
                   /\ buildLog' = r.log
           ELSE /\ subTreeMap' = map0
                /\ buildLog' = log0
                /\ UNCHANGED <<definitions, respSchema>>
  /\ IF idx = Len(order)
     THEN rpc' = After("discriminator") /\ idx' = 1
     ELSE rpc' = rpc /\ idx' = idx + 1
  /\ UNCHANGED <<order, paths, xmsPaths, opParams, hostParams,
                 resolvedAllOfModels, run, firstResult, original>>
  /\ passLog' = IF idx = 1 THEN Append(passLog, "discriminator") ELSE passLog
  /\ UNCHANGED <<options, raised, thrown>>
  /\ UNCHANGED <<genVars, reqVars, incVars, mergeLog>>

\* lines 583-591
DeleteReferencesToAllOf ==
  /\ rpc = "deleteAllOf"
  /\ definitions' = [n \in DOMAIN definitions |-> [definitions[n] EXCEPT !.allOf = <<>>]]
  /\ rpc' = After("deleteAllOf")
  /\ UNCHANGED <<order, paths, xmsPaths, opParams, hostParams, respSchema,
                 resolvedAllOfModels, subTreeMap, references, idx, run, firstResult, original>>
  /\ passLog' = Append(passLog, "deleteAllOf")
  /\ UNCHANGED <<options, raised, thrown>>
  /\ UNCHANGED <<genVars, reqVars, incVars, mergeLog, buildLog>>

\* lines 596-612
SetAdditionalPropertiesFalse ==
  /\ rpc = "additionalProperties"
  /\ definitions' = [n \in DOMAIN definitions |->
                       IF definitions[n].addl \in {"unset", "false"} /\ definitions[n].props # <<>>
                       THEN [definitions[n] EXCEPT !.addl = "false"]
                       ELSE definitions[n]]
  /\ rpc' = After("additionalProperties")
  /\ UNCHANGED <<order, paths, xmsPaths, opParams, hostParams, respSchema,
                 resolvedAllOfModels, subTreeMap, references, idx, run, firstResult, original>>
  /\ passLog' = Append(passLog, "additionalProperties")
  /\ UNCHANGED <<options, raised, thrown>>
  /\ UNCHANGED <<genVars, reqVars, incVars, mergeLog, buildLog>>

\* lines 629-646
ResolveParameterizedHost ==
  /\ rpc = "host"
  /\ opParams' = IF hostParams # <<>>
                 THEN [op \in DOMAIN opParams |->
                         IF op \in paths THEN opParams[op] \o hostParams ELSE opParams[op]]
                 ELSE opParams
  /\ rpc' = After("host")
  /\ UNCHANGED <<definitions, order, paths, xmsPaths, hostParams, respSchema,
                 resolvedAllOfModels, subTreeMap, references, idx, run, firstResult, original>>
  /\ passLog' = Append(passLog, "host")
  /\ UNCHANGED <<options, raised, thrown>>
  /\ UNCHANGED <<genVars, reqVars, incVars, mergeLog, buildLog>>

\* utils.relaxModelLikeEntities: an entity of type object without properties
\* is a pure object and loses its type
RelaxModelLikeEntities(model) ==
  IF model.type = "object" /\ model.props = <<>> THEN [model EXCEPT !.type = ""] ELSE model

\* lines 654-725
ResolvePureObjects ==
  /\ rpc = "pureObjects"
  /\ definitions' = [n \in DOMAIN definitions |-> RelaxModelLikeEntities(definitions[n])]
  /\ rpc' = After("pureObjects")
  /\ UNCHANGED <<order, paths, xmsPaths, opParams, hostParams, respSchema,
                 resolvedAllOfModels, subTreeMap, references, idx, run, firstResult, original>>
  /\ passLog' = Append(passLog, "pureObjects")
  /\ UNCHANGED <<options, raised, thrown>>
  /\ UNCHANGED <<genVars, reqVars, incVars, mergeLog, buildLog>>

\* utils.allowNullableTypes: a typed property that is not required admits null
AllowNullableTypes(model) ==
  [model EXCEPT !.props =
     [i \in DOMAIN @ |->
        IF @[i][2].type # "" /\ @[i][1] \notin SeqToSet(model.required)
        THEN <<@[i][1], [@[i][2] EXCEPT !.nullable = TRUE]>> ELSE @[i]]]

\* lines 784-826; resolve returns after it (line 232)
ResolveNullableTypes ==
  /\ rpc = "nullable"
  /\ definitions' = [n \in DOMAIN definitions |-> AllowNullableTypes(definitions[n])]
  /\ rpc' = After("nullable")
  /\ UNCHANGED <<order, paths, xmsPaths, opParams, hostParams, respSchema,
                 resolvedAllOfModels, subTreeMap, references, idx, run, firstResult, original>>
  /\ passLog' = Append(passLog, "nullable")
  /\ UNCHANGED <<options, raised, thrown>>
  /\ UNCHANGED <<genVars, reqVars, incVars, mergeLog, buildLog>>

\* lines 184-233 called once more on the document the first call returned, by
\* the same resolver or by a new one (line 111: resolvedAllOfModels = {})
ResolveAgain ==
  /\ rpc = "done"
  /\ run = 1
  /\ run' = 2
  /\ firstResult' = Document
  /\ resolvedAllOfModels' \in {resolvedAllOfModels, {}}
  /\ rpc' = PassOrder[1]
  /\ idx' = 1
  /\ passLog' = <<>>
  /\ UNCHANGED <<options, raised, thrown>>
  /\ UNCHANGED <<definitions, order, paths, xmsPaths, opParams, hostParams, respSchema,
                 subTreeMap, references, original>>
  /\ UNCHANGED <<genVars, reqVars, incVars, mergeLog, buildLog>>

\* ------------------------------------------------------------------------
\* Documents given to SpecResolver
\* ------------------------------------------------------------------------
\* a property of type string declared by definition n
Declared(n, k) == <<k, PropS("", <<>>, "string", <<>>, n)>>

\* a property of definition n that refers to definition t
Referring(n, k, t) == <<k, PropS(t, <<>>, "", <<>>, n)>>

\* P{kind?, id}; C{name, id?} and G{g} compose others; Owner refers to P
ResolveDoc(pdisc, preq, callOf, cid, cxms, cdisc, gallOf, oaddl) ==
  [n \in {"P", "C", "G", "Owner"} |->
     CASE n = "P" -> Model((IF pdisc # "" THEN <<Declared("P", pdisc)>> ELSE <<>>)
                             \o <<Declared("P", "id")>>, preq, <<>>,
                           pdisc, "", "unset", "", FALSE)
       [] n = "C" -> Model(<<Declared("C", "name")>> \o (IF cid THEN <<Declared("C", "id")>> ELSE <<>>),
                           <<"name">>, callOf, cdisc, cxms, "unset", "", FALSE)
       [] n = "G" -> Model(<<Declared("G", "g")>>, <<>>, gallOf, "", "", "unset", "", FALSE)
       [] n = "Owner" -> Model(<<Referring("Owner", "pet", "P"),
                                 Referring("Owner", "oneOfPets", "P")>>,
                               <<>>, <<>>, "", "", oaddl, "", FALSE)]

ResolveDocs ==
  {ResolveDoc(pdisc, preq, callOf, cid, cxms, cdisc, gallOf, oaddl) :
     pdisc \in {"", "kind"}, preq \in {<<>>, <<"id">>}, callOf \in {<<>>, <<"P">>},
     cid \in BOOLEAN, cxms \in {"", "c-wire"}, cdisc \in {"", "kind"},
     gallOf \in {<<>>, <<"C">>, <<"P">>, <<"P", "C">>}, oaddl \in {"unset", "true"}}

\* the caller gives no option
NoOptions ==
  [shouldResolveRelativePaths |-> "unset", shouldResolveAllOf |-> "unset",
   shouldSetAdditionalPropertiesFalse |-> "unset", shouldResolvePureObjects |-> "unset",
   shouldResolveDiscriminator |-> "unset", shouldResolveParameterizedHost |-> "unset",
   shouldResolveNullableTypes |-> "unset"]

\* the key orders a definitions object can have
KeyOrders(names) ==
  {q \in [1..Cardinality(names) -> names] : \A i, j \in DOMAIN q : q[i] = q[j] => i = j}

\* no generator is running
GeneratorIdle ==
  /\ defs = <<>>
  /\ payloadCache = <<>>
  /\ mockCache = <<>>
  /\ stack = <<>>
  /\ visitedSets = <<{}>>
  /\ status = "idle"
  /\ result = Undef
  /\ nextVal = 0
  /\ calls = 0
  /\ selected = <<>>
  /\ job = "top"
  /\ root = ""
  /\ paramSpec = <<>>
  /\ paramExample = <<>>
  /\ supplied = <<>>
  /\ pidx = 1
  /\ rule = [has |-> FALSE, rejects |-> {}]
  /\ infoVersion = ""
  /\ earlier = NoEarlier
  /\ genLog = <<>>
  /\ specItem = NoSpecItem
  /\ respExample = <<>>
  /\ ridx = 1

ResolveInit ==
  /\ definitions \in ResolveDocs
  /\ order \in KeyOrders(DOMAIN definitions)
  /\ paths = {"get"}
  /\ xmsPaths = {"post"}
  /\ opParams = [op \in {"get", "post"} |-> IF op = "get" THEN <<"p1">> ELSE <<>>]
  /\ hostParams \in {<<>>, <<"host">>}
  /\ respSchema = PropS("P", <<>>, "", <<>>, "response")
  /\ resolvedAllOfModels = {}
  /\ subTreeMap = <<>>
  /\ references = {}
  /\ rpc = PassOrder[1]
  /\ idx = 1
  /\ run = 1
  /\ firstResult = <<>>
  /\ original = definitions
  /\ options = Constructor(NoOptions)
  /\ passLog = <<>>
  /\ raised = NoError
  /\ thrown = NoError
  /\ mergeLog = <<>>
  /\ buildLog = <<>>
  /\ InclusionIdle
  /\ GeneratorIdle

ResolveNext ==
  \/ VerifyInternalReference
  \/ UnifyXmsPaths
  \/ ResolveRelativePaths
  \/ ResolveNestedDefinitions
  \/ ResolveAllOfInDefinitions
  \/ ResolveDiscriminator
  \/ DeleteReferencesToAllOf
  \/ SetAdditionalPropertiesFalse
  \/ ResolveParameterizedHost
  \/ ResolvePureObjects
  \/ ResolveNullableTypes
  \/ ResolveAgain

ResolveSpec == ResolveInit /\ [][ResolveNext]_vars

\* ------------------------------------------------------------------------
\* One call of resolve under every choice of options, with passes that throw
\* ------------------------------------------------------------------------
\* values a pass can throw: a TypeError, an error that carries id and message,
\* an id without message, an empty message, a string, an InternalError
ThrownValues ==
  {ErrorObject(Absent, Absent, "Cannot read property of undefined", <<>>),
   ErrorObject("JSON_PARSING_ERROR", "OAV109", "Json parsing error", <<>>),
   ErrorObject(Absent, "OAV109", Absent, <<>>),
   ErrorObject(Absent, Absent, "", <<>>),
   ThrownString("ENOENT"),
   ErrorObject(ErrorCodes.InternalError.name, ErrorCodes.InternalError.id,
               "internal error: undefined", <<ThrownString("ENOENT")>>)}

\* lines 189-217: the running pass throws; the catch block (218-231) throws on
PassThrows ==
  /\ rpc \in SeqToSet(PassOrder) \ {"verify"}
  /\ \E err \in ThrownValues :
       /\ raised' = err
       /\ thrown' = Catch(err)
  /\ rpc' = "failed"
  /\ passLog' = IF passLog # <<>> /\ passLog[Len(passLog)] = rpc
                THEN passLog ELSE Append(passLog, rpc)
  /\ UNCHANGED <<definitions, order, paths, xmsPaths, opParams, hostParams, respSchema,
                 resolvedAllOfModels, subTreeMap, references, idx, run, firstResult, original,
                 options>>
  /\ UNCHANGED <<genVars, reqVars, incVars, mergeLog, buildLog>>

\* the options a caller can give
GivenOptions ==
  [shouldResolveRelativePaths : {"unset", "on", "off"},
   shouldResolveAllOf : {"unset", "on", "off"},
   shouldSetAdditionalPropertiesFalse : {"unset", "on", "off"},
   shouldResolvePureObjects : {"unset", "on", "off"},
   shouldResolveDiscriminator : {"unset", "on", "off"},
   shouldResolveParameterizedHost : {"unset", "on", "off"},
   shouldResolveNullableTypes : {"unset", "on", "off"}]

\* properties of Owner that point at definitions the document does not have
Dangling ==
  {<<>>,
   <<Referring("Owner", "m1", "M1")>>,
   <<Referring("Owner", "m1", "M1"), Referring("Owner", "m2", "M2")>>,
   <<Referring("Owner", "m1", "M1"), Referring("Owner", "m2", "M1")>>}

\* the document d with the enum given on property k of definition n
WithEnum(d, n, k, enum) ==
  IF Has(d[n].props, k)
  THEN [d EXCEPT ![n].props = Put(@, k, [Get(@, k) EXCEPT !.enum = enum])]
  ELSE d

OptionDocs ==
  {[WithEnum(ResolveDoc(pdisc, <<>>, <<"P">>, FALSE, "", cdisc, <<"C">>, "unset"),
             "P", "kind", penum)
      EXCEPT !["Owner"].props = @ \o dangling] :
     pdisc \in {"", "kind"}, cdisc \in {"", "kind"}, penum \in {<<>>, <<"legacy">>},
     dangling \in Dangling}

OptionInit ==
  /\ definitions \in OptionDocs
  /\ order = <<"P", "C", "G", "Owner">>
  /\ paths = {"get"}
  /\ xmsPaths = {"post"}
  /\ opParams = [op \in {"get", "post"} |-> IF op = "get" THEN <<"p1">> ELSE <<>>]
  /\ hostParams = <<"host">>
  /\ respSchema = PropS("P", <<>>, "", <<>>, "response")
  /\ resolvedAllOfModels = {}
  /\ subTreeMap = <<>>
  /\ references = {}
  /\ rpc = PassOrder[1]
  /\ idx = 1
  /\ run = 1
  /\ firstResult = <<>>
  /\ original = definitions
  /\ options \in {Constructor(given) : given \in GivenOptions}
  /\ passLog = <<>>
  /\ raised = NoError
  /\ thrown = NoError
  /\ mergeLog = <<>>
  /\ buildLog = <<>>
  /\ InclusionIdle
  /\ GeneratorIdle

OptionNext ==
  \/ VerifyInternalReference
  \/ UnifyXmsPaths
  \/ ResolveRelativePaths
  \/ ResolveNestedDefinitions
  \/ ResolveAllOfInDefinitions
  \/ ResolveDiscriminator
  \/ DeleteReferencesToAllOf
  \/ SetAdditionalPropertiesFalse
  \/ ResolveParameterizedHost
  \/ ResolvePureObjects
  \/ ResolveNullableTypes
  \/ PassThrows

OptionSpec == OptionInit /\ [][OptionNext]_vars

\* ------------------------------------------------------------------------
\* Properties of resolve
\* ------------------------------------------------------------------------
\* the definitions n composes, directly or through others
RECURSIVE AllOfAncestors(_, _)
AllOfAncestors(d, n) ==
  UNION {{d[n].allOf[i]} \cup AllOfAncestors(d, d[n].allOf[i]) : i \in DOMAIN d[n].allOf}

Descendants(d, b) == {n \in DOMAIN d : b \in AllOfAncestors(d, n)}

NoDuplicates(q) == \A i, j \in DOMAIN q : q[i] = q[j] => i = j

\* resolveAllOfInDefinitions of the first call of resolve has just returned
Flattened == rpc = "discriminator" /\ idx = 1 /\ run = 1

\* resolveDiscriminator of the first call of resolve has just returned
Expanded == rpc = "deleteAllOf" /\ run = 1

\* C5: a second call of resolve leaves the document as the first call
\* returned it: the parameter list of every operation and the properties,
\* required list, enums, oneOf sets and additionalProperties of every
\* definition are those of the first result.
C5_SecondResolveChangesNothing ==
  (rpc = "done" /\ run = 2) => Document = firstResult

\* C6: after composition flattening every definition holds the property
\* names of all the definitions it composes directly or indirectly, and its
\* required list holds all their required names without duplicates, in
\* whatever order the definitions are iterated; C{name, required [name]}
\* composing P{id, required [id]} ends with properties {id, name} and
\* required {id, name}.
C6_FlatteningHoldsAllAncestors ==
  Flattened =>
    /\ \A n \in DOMAIN definitions :
         /\ NoDuplicates(definitions[n].required)
         /\ \A a \in AllOfAncestors(original, n) :
              /\ SeqToSet(Keys(original[a].props)) \subseteq SeqToSet(Keys(definitions[n].props))
              /\ SeqToSet(original[a].required) \subseteq SeqToSet(definitions[n].required)
    /\ (/\ original["C"].allOf = <<"P">>
        /\ SeqToSet(Keys(original["P"].props)) = {"id"}
        /\ original["P"].required = <<"id">>
        /\ SeqToSet(Keys(original["C"].props)) = {"name"})
       => /\ SeqToSet(Keys(definitions["C"].props)) = {"id", "name"}
          /\ SeqToSet(definitions["C"].required) = {"id", "name"}

\* G composes C, C composes P, G is flattened first and holds the name P declares
C6_Witness ==
  /\ Flattened
  /\ order = <<"G", "C", "P", "Owner">>
  /\ original["G"].allOf = <<"C">>
  /\ original["C"].allOf = <<"P">>
  /\ original["P"].required = <<"id">>
  /\ "id" \in SeqToSet(Keys(definitions["G"].props))
  /\ "id" \in SeqToSet(definitions["G"].required)

SitesOf(d, resp, b) ==
  {r \in FindRefs(d, resp) :
     r.uri = b /\ (\E n \in DOMAIN d, k \in {"pet", "oneOfPets", "id", "name", "g", "kind"} :
                     r.loc = PropLoc(n, k) \/ r.loc = RespLoc)}

\* the schema at a property location or at the response
SchemaAt(d, resp, loc) == IF loc = RespLoc THEN resp ELSE Get(d[loc[2]].props, loc[4])

\* C8: after polymorphism expansion every reference site to a base that
\* carries a discriminator and has subtypes, other than the sites under an
\* allOf or a oneOf, has lost its $ref and carries a oneOf that refers to
\* the base and to every direct and indirect subtype.
C8_EverySiteBecomesOneOf ==
  Expanded =>
    \A b \in DOMAIN definitions :
      (original[b].discriminator # "" /\ Descendants(original, b) # {}) =>
        \A r \in SitesOf(original, PropS("P", <<>>, "", <<>>, "response"), b) :
          /\ SchemaAt(definitions, respSchema, r.loc).ref = ""
          /\ SeqToSet(SchemaAt(definitions, respSchema, r.loc).oneOf)
               = {b} \cup Descendants(original, b)

\* C9: after polymorphism expansion a subtype of a polymorphic tree that
\* holds the discriminator property and declares no discriminator itself has
\* that property's enum equal to the one-element list of its
\* x-ms-discriminator-value, else of its own name; the enum of the base holds
\* the name of the base only.
C9_SubtypeEnumPinned ==
  Expanded =>
    \A b \in DOMAIN definitions :
      original[b].discriminator # "" =>
        /\ \A n \in Descendants(original, b) :
             (Has(definitions[n].props, original[b].discriminator)
              /\ original[n].discriminator = "") =>
               Get(definitions[n].props, original[b].discriminator).enum
                 = <<IF original[n].xms # "" THEN original[n].xms ELSE n>>
        /\ (Has(original[b].props, original[b].discriminator) /\ original[b].xms = "")
             => Get(definitions[b].props, original[b].discriminator).enum = <<b>>

\* C composes P, declares a wire name and has it pinned; P keeps its own
C9_Witness ==
  /\ Expanded
  /\ original["P"].discriminator = "kind"
  /\ original["C"].allOf = <<"P">>
  /\ original["C"].discriminator = ""
  /\ original["C"].xms = "c-wire"
  /\ Get(definitions["C"].props, "kind").enum = <<"c-wire">>
  /\ Get(definitions["P"].props, "kind").enum = <<"P">>

\* ------------------------------------------------------------------------
\* SpecResolver: cross-file inclusion (resolveRelativePaths)
\* ------------------------------------------------------------------------
\* a $ref: file is "" for a pointer into the same document, ptr is "" for a
\* reference to a whole file; fn is the file a function at the site returns
Ref(file, ptr) == [file |-> file, ptr |-> ptr, fn |-> ""]

\* line 479: the site holds () => result
FileFunction(docPath) == [file |-> "", ptr |-> "", fn |-> docPath]

\* a definition object: the references under its properties and in its allOf
DefObject(props, allOf) == [props |-> props, allOf |-> allOf]

SpecPath == "spec.json"

NoObject == <<>>

\* jsonRefs.findRefs(doc, options) on one list of an object: the sites from i
\* on that hold a $ref, the local ones only when the filter is deleted
RECURSIVE SitesFrom(_, _, _, _, _)
SitesFrom(heap, id, list, i, all) ==
  IF i > Len(heap[id][list]) THEN <<>>
  ELSE LET node == heap[id][list][i]
           found == node.fn = "" /\ (all \/ node.file # "")
       IN (IF found THEN <<[obj |-> id, list |-> list, i |-> i]>> ELSE <<>>)
          \o SitesFrom(heap, id, list, i + 1, all)

\* jsonRefs.findRefs(doc, options) on a definition object
RefsWithin(heap, id, all) ==
  SitesFrom(heap, id, "props", 1, all) \o SitesFrom(heap, id, "allOf", 1, all)

\* a running resolveRelativePaths with the references it has still to resolve
RefsFrame(sites, docPath) == [kind |-> "refs", pending |-> sites, docPath |-> docPath]

\* the loop of lines 448-452 with the definitions it has still to process
DefsFrame(names, docPath) == [kind |-> "defs", pending |-> names, docPath |-> docPath]

\* lines 404 and 437 without the entry
VisitNothing(visited, pointer) == visited

\* lines 404 and 437: visitedEntities[pointer] = object
Visit(visited, pointer) == visited \cup {pointer}

\* lines 251-293 called by resolve on specInJson: the relative and remote
\* references of the document are found
IncludeStart ==
  /\ ipc = "idle"
  /\ ipc' = "running"
  /\ work' = <<RefsFrame(RefsWithin(objects, <<SpecPath, "L">>, FALSE), SpecPath)>>
  /\ UNCHANGED <<docsCache, objects, specDefinitions, visitedEntities, copies, loading>>
  /\ UNCHANGED <<definitions, order, paths, xmsPaths, opParams, hostParams, respSchema,
                 resolvedAllOfModels, subTreeMap, references, rpc, idx, run, firstResult,
                 original, options, passLog, raised, thrown, mergeLog, buildLog>>
  /\ UNCHANGED <<genVars, reqVars>>

\* Promise.all(promiseFactories.map(f => f())): every factory is invoked
StartedTogether(pending) == SeqToSet(pending)

\* utils.executePromisesSequentially(promiseFactories): a factory is invoked
\* when the promise of the one before it has settled
Started(pending) == IF pending = <<>> THEN {} ELSE {Head(pending)}

\* the list without the element
Without(list, element) == SelectSeq(list, LAMBDA e : e # element)

\* lines 329-366 with the call of jsonUtils.parseJson at 397 or 467: a
\* reference the list has started is handled up to the await of its load
ParseJson ==
  /\ ipc = "running"
  /\ work # <<>>
  /\ work[Len(work)].kind = "refs"
  /\ \E site \in Started(work[Len(work)].pending) \ loading :
       loading' = loading \cup {site}
  /\ UNCHANGED <<docsCache, objects, specDefinitions, visitedEntities, work, copies, ipc>>
  /\ UNCHANGED <<definitions, order, paths, xmsPaths, opParams, hostParams, respSchema,
                 resolvedAllOfModels, subTreeMap, references, rpc, idx, run, firstResult,
                 original, options, passLog, raised, thrown, mergeLog, buildLog>>
  /\ UNCHANGED <<genVars, reqVars>>

\* resolveLocalReference from line 404 to the call at 415, and
\* resolveRemoteReference from 473 to 479: the load of a reference has
\* returned and the reference is resolved
ResolveRelativeReference ==
  /\ ipc = "running"
  /\ work # <<>>
  /\ work[Len(work)].kind = "refs"
  /\ \E site \in loading \cap SeqToSet(work[Len(work)].pending) :
     LET top == work[Len(work)]
         node == objects[site.obj][site.list][site.i]
         docPath == IF node.file # "" THEN node.file ELSE top.docPath
         rest == [work EXCEPT ![Len(work)].pending = Without(@, site)]
     IN /\ loading' = loading \ {site}
        /\ IF node.ptr # ""
           THEN LET rewritten == [objects EXCEPT ![site.obj][site.list][site.i] =
                                                   Ref("", node.ptr)]
                    referencedObj == <<docPath, node.ptr>>
                IN /\ objects' = rewritten
                   /\ IF node.ptr \notin visitedEntities
                      THEN /\ specDefinitions' =
                                [specDefinitions EXCEPT ![node.ptr] = referencedObj]
                           /\ visitedEntities' = Visit(visitedEntities, node.ptr)
                           /\ copies' = Append(copies, referencedObj)
                           /\ work' = rest \o
                                <<DefsFrame(docsCache[docPath], docPath),
                                  RefsFrame(RefsWithin(rewritten, referencedObj, TRUE), docPath)>>
                      ELSE /\ work' = rest
                           /\ UNCHANGED <<specDefinitions, visitedEntities, copies>>
           ELSE /\ objects' = [objects EXCEPT ![site.obj][site.list][site.i] =
                                                 FileFunction(docPath)]
                /\ work' = rest
                /\ UNCHANGED <<specDefinitions, visitedEntities, copies>>
  /\ UNCHANGED <<docsCache, ipc>>
  /\ UNCHANGED <<definitions, order, paths, xmsPaths, opParams, hostParams, respSchema,
                 resolvedAllOfModels, subTreeMap, references, rpc, idx, run, firstResult,
                 original, options, passLog, raised, thrown, mergeLog, buildLog>>
  /\ UNCHANGED <<genVars, reqVars>>

\* lines 428-446: the next definition of the parsed file; one that has an
\* allOf and is not visited is set into specInJson
ProcessDefinition ==
  /\ ipc = "running"
  /\ work # <<>>
  /\ work[Len(work)].kind = "defs"
  /\ work[Len(work)].pending # <<>>
  /\ LET top == work[Len(work)]
         defName == Head(top.pending)
         definitionObj == <<top.docPath, defName>>
         rest == [work EXCEPT ![Len(work)].pending = Tail(@)]
     IN IF objects[definitionObj].allOf # <<>> /\ defName \notin visitedEntities
        THEN /\ specDefinitions' = [specDefinitions EXCEPT ![defName] = definitionObj]
             /\ visitedEntities' = Visit(visitedEntities, defName)
             /\ copies' = Append(copies, definitionObj)
             /\ work' = Append(rest, RefsFrame(RefsWithin(objects, definitionObj, TRUE),
                                               top.docPath))
        ELSE /\ work' = rest
             /\ UNCHANGED <<specDefinitions, visitedEntities, copies>>
  /\ UNCHANGED <<docsCache, objects, ipc, loading>>
  /\ UNCHANGED <<definitions, order, paths, xmsPaths, opParams, hostParams, respSchema,
                 resolvedAllOfModels, subTreeMap, references, rpc, idx, run, firstResult,
                 original, options, passLog, raised, thrown, mergeLog, buildLog>>
  /\ UNCHANGED <<genVars, reqVars>>

\* lines 290-292 and 452: every promise of the list has run, the call returns
IncludeReturn ==
  /\ ipc = "running"
  /\ work # <<>>
  /\ work[Len(work)].pending = <<>>
  /\ work' = SubSeq(work, 1, Len(work) - 1)
  /\ ipc' = IF Len(work) = 1 THEN "done" ELSE "running"
  /\ UNCHANGED <<docsCache, objects, specDefinitions, visitedEntities, copies, loading>>
  /\ UNCHANGED <<definitions, order, paths, xmsPaths, opParams, hostParams, respSchema,
                 resolvedAllOfModels, subTreeMap, references, rpc, idx, run, firstResult,
                 original, options, passLog, raised, thrown, mergeLog, buildLog>>
  /\ UNCHANGED <<genVars, reqVars>>

\* spec.json holds L; a.json holds X, Y, Z; b.json holds X and W
IncludeDoc(l1, l2, ax, ay, az, bw) ==
  [id \in {<<SpecPath, "L">>, <<"a.json", "X">>, <<"a.json", "Y">>, <<"a.json", "Z">>,
           <<"b.json", "X">>, <<"b.json", "W">>} |->
     CASE id = <<SpecPath, "L">> -> DefObject(<<l1, l2>>, <<>>)
       [] id = <<"a.json", "X">> -> DefObject(ax, <<>>)
       [] id = <<"a.json", "Y">> -> DefObject(<<>>, ay)
       [] id = <<"a.json", "Z">> -> DefObject(<<>>, az)
       [] id = <<"b.json", "X">> -> DefObject(<<>>, <<>>)
       [] id = <<"b.json", "W">> -> DefObject(bw, <<>>)]

IncludeDocs ==
  {IncludeDoc(l1, l2, ax, ay, az, bw) :
     l1 \in {Ref("a.json", "X"), Ref("a.json", "Y"), Ref("b.json", "W")},
     l2 \in {Ref("a.json", "X"), Ref("b.json", "X"), Ref("a.json", "")},
     ax \in {<<>>, <<Ref("", "Y")>>, <<Ref("", "X")>>, <<Ref("b.json", "W")>>},
     ay \in {<<>>, <<Ref("", "X")>>},
     az \in {<<>>, <<Ref("", "X")>>, <<Ref("", "Y")>>},
     bw \in {<<>>, <<Ref("a.json", "X")>>}}

IncludeInit ==
  /\ objects \in IncludeDocs
  /\ docsCache = [file \in {"a.json", "b.json"} |->
                    IF file = "a.json" THEN <<"X", "Y", "Z">> ELSE <<"X", "W">>]
  /\ specDefinitions = [n \in {"L", "X", "Y", "Z", "W"} |->
                          IF n = "L" THEN <<SpecPath, "L">> ELSE NoObject]
  /\ visitedEntities = {}
  /\ work = <<>>
  /\ copies = <<>>
  /\ ipc = "idle"
  /\ loading = {}
  /\ PassesIdle
  /\ GeneratorIdle

IncludeNext ==
  \/ IncludeStart
  \/ ParseJson
  \/ ResolveRelativeReference
  \/ ProcessDefinition
  \/ IncludeReturn

IncludeSpec == IncludeInit /\ [][IncludeNext]_vars

\* the event loop runs a continuation that is ready: a step of the inclusion
\* that can be taken is taken
IncludeFairSpec == IncludeInit /\ [][IncludeNext]_vars /\ WF_vars(IncludeNext)

\* ------------------------------------------------------------------------
\* Properties of resolve: errors and pass order
\* ------------------------------------------------------------------------
\* C15: when the document holds pointers to missing definitions, resolve
\* stops in reference verification and its caller gets the RefNotFound error
\* itself, not an InternalError, with exactly one inner error for every
\* missing pointer.
C15_AllMissingPointersReported ==
  LET keys == UnresolvedRefs(original, PropS("P", <<>>, "", <<>>, "response"))
  IN (keys # {} /\ rpc # "verify")
     => /\ rpc = "failed"
        /\ passLog = <<"verify">>
        /\ thrown = raised
        /\ thrown.code = "REF_NOTFOUND_ERROR"
        /\ thrown.code # "INTERNAL_ERROR"
        /\ Len(thrown.innerErrors) = Cardinality(keys)
        /\ \A k \in keys :
             Cardinality({i \in DOMAIN thrown.innerErrors :
                            thrown.innerErrors[i].message =
                              "JSON Pointer points to missing location:" \o k}) = 1

\* two different missing pointers were reported together
C15_Witness ==
  /\ rpc = "failed"
  /\ thrown.code = "REF_NOTFOUND_ERROR"
  /\ Len(thrown.innerErrors) = 2
  /\ thrown.innerErrors[1].message = "JSON Pointer points to missing location:M1"
  /\ thrown.innerErrors[2].message = "JSON Pointer points to missing location:M2"

\* C16: a value thrown by a pass that lacks an id or a message reaches the
\* caller as one InternalError whose innerErrors is the list of that value
\* alone; a thrown object with id and message reaches the caller unchanged.
C16_WrappedExactlyOnce ==
  rpc = "failed" =>
    IF raised.t = "object" /\ raised.id \notin {"", Absent} /\ raised.message \notin {"", Absent}
    THEN thrown = raised
    ELSE /\ thrown.code = "INTERNAL_ERROR"
         /\ thrown.innerErrors = <<raised>>
         /\ thrown.innerErrors[1].code # "INTERNAL_ERROR"

\* polymorphism expansion threw a TypeError and the caller got it wrapped
C16_Witness ==
  /\ rpc = "failed"
  /\ passLog[Len(passLog)] = "discriminator"
  /\ raised.t = "object"
  /\ raised.id = Absent
  /\ thrown.code = "INTERNAL_ERROR"
  /\ thrown.innerErrors = <<raised>>

\* the passes of the fixed order that the options enable
C19_Fixed ==
  <<"verify", "unify", "relative", "nested", "allOf", "discriminator", "deleteAllOf",
    "additionalProperties", "host", "nullable">>

C19_Rank(pass) == CHOOSE i \in DOMAIN C19_Fixed : C19_Fixed[i] = pass

C19_Started == {i \in DOMAIN passLog : passLog[i] # "pureObjects"}

\* C19: the passes a call of resolve starts follow the fixed order, none is
\* started twice and none while another one is running; a call that returns
\* has run exactly the enabled ones; the composition lists are deleted only
\* when polymorphism expansion, if enabled, has finished.
C19_PassesInFixedOrder ==
  /\ \A i \in C19_Started : passLog[i] \in SeqToSet(C19_Fixed)
  /\ \A i, j \in C19_Started : i < j => C19_Rank(passLog[i]) < C19_Rank(passLog[j])
  /\ (idx > 1 /\ rpc # "failed") => passLog[Len(passLog)] = rpc
  /\ rpc = "done" =>
       /\ {"verify", "unify", "nested"} \subseteq SeqToSet(passLog)
       /\ "relative" \in SeqToSet(passLog) <=> options.shouldResolveRelativePaths
       /\ "allOf" \in SeqToSet(passLog) <=> options.shouldResolveAllOf
       /\ "discriminator" \in SeqToSet(passLog) <=> options.shouldResolveDiscriminator
       /\ "deleteAllOf" \in SeqToSet(passLog) <=> options.shouldResolveAllOf
       /\ "additionalProperties" \in SeqToSet(passLog)
            <=> options.shouldSetAdditionalPropertiesFalse
       /\ "host" \in SeqToSet(passLog) <=> options.shouldResolveParameterizedHost
       /\ "nullable" \in SeqToSet(passLog) <=> options.shouldResolveNullableTypes
  /\ (\E n \in DOMAIN definitions : definitions[n].allOf # original[n].allOf)
       => /\ "deleteAllOf" \in SeqToSet(passLog)
          /\ options.shouldResolveDiscriminator
               => "discriminator" \in SeqToSet(passLog) /\ rpc # "discriminator"

\* all passes ran; expansion found the children of P before the lists went
C19_Witness ==
  /\ rpc = "done"
  /\ passLog = <<"verify", "unify", "relative", "nested", "allOf", "discriminator",
                 "deleteAllOf", "additionalProperties", "host", "pureObjects", "nullable">>
  /\ original["C"].allOf = <<"P">>
  /\ definitions["C"].allOf = <<>>
  /\ Has(subTreeMap, "P")

\* the reference resolveRelativeReference resolves next
C20_Node ==
  objects[Head(work[Len(work)].pending).obj][Head(work[Len(work)].pending).list]
         [Head(work[Len(work)].pending).i]

\* C20: a step of cross-file inclusion sets at most one object into the
\* local definitions, one that was not set before and whose location was not
\* visited, and records the location as visited; a reference to a visited
\* location changes nothing but the pointer of its site.
C20_RemoteLocationCopiedOnce ==
  [][/\ copies' # copies
        => /\ Len(copies') = Len(copies) + 1
           /\ SubSeq(copies', 1, Len(copies)) = copies
           /\ \A i \in DOMAIN copies : copies[i] # copies'[Len(copies')]
           /\ copies'[Len(copies')][2] \notin visitedEntities
           /\ copies'[Len(copies')][2] \in visitedEntities'
           /\ specDefinitions'[copies'[Len(copies')][2]] = copies'[Len(copies')]
     /\ ( /\ ipc = "running"
          /\ work # <<>>
          /\ work[Len(work)].kind = "refs"
          /\ work[Len(work)].pending # <<>>
          /\ Head(work[Len(work)].pending) \in loading
          /\ C20_Node.ptr \in visitedEntities )
        => /\ copies' = copies
           /\ specDefinitions' = specDefinitions
           /\ visitedEntities' = visitedEntities
           /\ objects'[Head(work[Len(work)].pending).obj][Head(work[Len(work)].pending).list]
                      [Head(work[Len(work)].pending).i] = Ref("", C20_Node.ptr)]_vars

\* both references of L pointed at X of a.json, which refers to itself: it
\* was set into the local definitions once and all three pointers are local
C20_Witness ==
  /\ ipc = "done"
  /\ objects[<<SpecPath, "L">>].props = <<Ref("", "X"), Ref("", "X")>>
  /\ objects[<<"a.json", "X">>].props = <<Ref("", "X")>>
  /\ specDefinitions["X"] = <<"a.json", "X">>
  /\ Cardinality({i \in DOMAIN copies : copies[i] = <<"a.json", "X">>}) = 1

\* the reference a sequential list handles next in the innermost call
C21_Next == Head(work[Len(work)].pending)

\* C21: at most one load of a document is in progress; the load that starts
\* is the one of the first reference not yet handled in the innermost call;
\* and while a load is in progress the next step is the return of that load,
\* in which the visited entities gain at most the pointer of that reference.
C21_OneFetchAtATime ==
  /\ [](Cardinality(loading) <= 1)
  /\ [][/\ (loading = {} /\ loading' # {})
          => /\ work[Len(work)].kind = "refs"
             /\ loading' = {C21_Next}
             /\ UNCHANGED <<visitedEntities, specDefinitions, objects, work>>
       /\ loading # {}
          => /\ loading = {C21_Next}
             /\ loading' = {}
             /\ work'[Len(work)].pending = Tail(work[Len(work)].pending)
             /\ visitedEntities' \subseteq
                  visitedEntities \cup
                    {objects[C21_Next.obj][C21_Next.list][C21_Next.i].ptr}]_vars

\* the load of a reference found in a definition of a remote file is in
\* progress while the call on the local document and the loop over the
\* definitions of the remote file wait for it, one object being copied
C21_Witness ==
  /\ Cardinality(loading) = 1
  /\ Len(work) >= 3
  /\ work[1].pending # <<>>
  /\ copies # <<>>

\* mockForExample is about to run lines 35-50
C22_BeforeBackFill == status = "idle" /\ job = "example"

\* the rule of lines 38-50 asks for a slot of the declared status code
C22_Asked(statusCode) ==
  /\ statusCode # "default"
  /\ respExample = <<>> \/ statusCode \notin {"200", "201", "202", "204"}

\* C22: when mockForExample has filled the slots, every declared status code
\* the rule asks for has an empty slot, and for every other status code the
\* example holds a slot exactly if it held one before.
C22_BackFillRule ==
  [][C22_BeforeBackFill
       => /\ \A statusCode \in SeqToSet(Keys(specItem.responses)) :
               C22_Asked(statusCode)
                 => /\ Has(respExample', statusCode)
                    /\ Get(respExample', statusCode) = RawObj(<<>>)
          /\ \A statusCode \in {"200", "201", "202", "204", "404", "default"} :
               ~(Has(specItem.responses, statusCode) /\ C22_Asked(statusCode))
                 => Has(respExample', statusCode) = Has(respExample, statusCode)]_vars

\* response generation starts on an example that was supplied with a
\* response: the declared 201 got no slot, the declared default neither
C22_Witness ==
  /\ job = "example"
  /\ status = "response"
  /\ ridx = 1
  /\ Keys(specItem.responses) = <<"201", "default">>
  /\ Keys(respExample) = <<"404">>

\* C23: a slot the supplied example holds for a declared status code holds
\* the same value when mockForExample has filled the slots.
C23_PresentSlotKept ==
  [][C22_BeforeBackFill
       => \A statusCode \in SeqToSet(Keys(specItem.responses)) :
            Has(respExample, statusCode)
              => /\ Has(respExample', statusCode)
                 /\ Get(respExample', statusCode) = Get(respExample, statusCode)]_vars

\* the declared parameter mockRequest handles next
C24_Param == ResolveRefObj(defs, paramSpec[pidx])

\* mockRequest asks onParameter about the parameter it handles next: the
\* parameter is not resourceGroupName or api-version and has a schema or no
\* supplied value
C24_ParamAsked ==
  /\ status = "request"
  /\ C24_Param.name \notin {"resourceGroupName", "api-version"}
  /\ C24_Param.schema.t # "none" \/ ~Has(paramExample, C24_Param.name)

\* mockEachResponse asks onResponseBody about a declared status code
C24_ResponseAsked ==
  /\ status = "response"
  /\ Has(specItem.responses, respExample[ridx][1])

\* the step invokes the generator
C24_GeneratorInvoked == stack = <<>> /\ stack' # <<>> /\ status' = "running"

\* the step neither invokes the generator nor changes what it has written
C24_NothingGenerated ==
  /\ stack' = <<>>
  /\ status' # "running"
  /\ UNCHANGED <<mockCache, payloadCache, nextVal, genLog>>

\* C24: with no validator a parameter that mockRequest asks about is handed
\* to the generator, and a declared response is handed to it when it has a
\* schema and gets a response object otherwise; a parameter onParameter
\* rejects gets no value and a response onResponseBody rejects becomes
\* undefined, the generator not being invoked and the mock cache unchanged.
C24_ValidatorGates ==
  [][/\ (C24_ParamAsked /\ ~rule.has) => C24_GeneratorInvoked
     /\ (C24_ParamAsked /\ rule.has /\ C24_Param.name \in rule.rejects)
          => /\ C24_NothingGenerated
             /\ paramExample' = paramExample
     /\ (C24_ResponseAsked /\ ~rule.has)
          => IF Get(specItem.responses, respExample[ridx][1]).schema # [t |-> "absent"]
             THEN C24_GeneratorInvoked
             ELSE Get(respExample', respExample[ridx][1]) # Undef
     /\ (status = "response" /\ rule.has /\ respExample[ridx][1] \in rule.rejects)
          => /\ C24_NothingGenerated
             /\ Get(respExample', respExample[ridx][1]) = Undef]_vars

\* the validator rejected the body parameter and the response 404: the
\* call has returned, the parameter has no value and the response is undefined
C24_Witness ==
  /\ job = "example"
  /\ status = "done"
  /\ rule.has
  /\ paramSpec = <<Param("parameters", RefS("A"))>>
  /\ paramExample = <<>>
  /\ Has(respExample, "404")
  /\ Get(respExample, "404") = Undef

\* C25: when a call of mockCachedObj returns, the visited set it was given
\* holds what it held when the call began.
C25_VisitedRestoredOnReturn ==
  [][(status = "running" /\ stack # <<>> /\ Len(stack') = Len(stack) - 1)
       => visitedSets'[Top.vis] =
            IF Top.pc = "entry" THEN visitedSets[Top.vis] ELSE Top.entered]_vars

\* the step writes the pinned discriminator value as a constant leaf at the
\* next property key of the innermost call (line 235)
C26_EmitsConstant ==
  /\ status = "running"
  /\ stack # <<>>
  /\ Top.pc = "props"
  /\ Top.todo # <<>>
  /\ Len(stack') = Len(stack)
  /\ stack'[Len(stack)].todo = Tail(Top.todo)

\* the innermost call generates the subtype chosen by branch selection
C26_IsChosenSubtype ==
  /\ Len(stack) >= 2
  /\ stack[Len(stack) - 1].pc = "disc_wait"

\* C26: the call that generates the chosen subtype writes the chosen value
\* as a constant leaf at its discriminator property, and the constant is
\* written nowhere else: not at a property of an object nested below it.
C26_ConstantOnlyAtDiscriminator ==
  [][/\ ( /\ C26_IsChosenSubtype
          /\ Top.pc = "props"
          /\ Top.todo # <<>>
          /\ Head(Top.todo) = GetDiscriminator(defs, stack[Len(stack) - 1].spec) )
        => /\ C26_EmitsConstant
           /\ Get(stack'[Len(stack)].example.children, Head(Top.todo)).value = Const(Top.disc)
     /\ C26_EmitsConstant
        => /\ C26_IsChosenSubtype
           /\ Head(Top.todo) = GetDiscriminator(defs, stack[Len(stack) - 1].spec)]_vars

\* C27: after polymorphism expansion every alternative set written for a
\* tree node refers to the node and to every definition that composes it
\* directly or indirectly, and to each of them once.
C27_AlternativesOnce ==
  Expanded =>
    \A n \in DOMAIN definitions : \A i \in DOMAIN definitions[n].props :
      LET oneOf == definitions[n].props[i][2].oneOf
      IN oneOf # <<>> =>
           /\ SeqToSet(oneOf) = {oneOf[1]} \cup Descendants(original, oneOf[1])
           /\ NoDuplicates(oneOf)

\* C28: composition flattening merges the allOf list of a definition into
\* it at most once.
C28_FlattenedOnce ==
  \A n \in DOMAIN definitions :
    Cardinality({i \in DOMAIN mergeLog : mergeLog[i] = n}) <= 1

\* C29: one pass of polymorphism expansion builds the tree node of a
\* definition name at most once.
C29_NodeBuiltOnce ==
  \A n \in DOMAIN definitions :
    Cardinality({i \in DOMAIN buildLog : buildLog[i] = n}) <= 1

\* the definitions whose node the step of resolveDiscriminator builds
C30_Pinned ==
  {buildLog'[i] : i \in {j \in DOMAIN buildLog' : j > (IF idx = 1 THEN 0 ELSE Len(buildLog))}}

\* C30: when the discriminator value is pinned on a tree node whose
\* discriminator property already declares an enum, the values already
\* present are kept and the wire-name of the node is added to them, for the
\* base type and for every subtype of the tree.
C30_EnumMergedNotOverwritten ==
  [][(rpc = "discriminator" /\ idx <= Len(order))
       => \A n \in C30_Pinned :
            LET k == definitions[order[idx]].discriminator
            IN (Has(definitions[n].props, k)
                /\ Unref(definitions, Get(definitions[n].props, k)).enum # <<>>)
                 => /\ SeqToSet(Unref(definitions, Get(definitions[n].props, k)).enum)
                         \subseteq SeqToSet(Get(definitions'[n].props, k).enum)
                    /\ WireName(definitions[n], n, k)
                         \in SeqToSet(Get(definitions'[n].props, k).enum)]_vars

\* C31: for a primitive schema, whenever the seed example holds a value
\* (0, false and the empty string included) the generated leaf holds that
\* seed value and the value synthesizer is not invoked.
C31_SeedValueKept ==
  [][(/\ status = "running"
      /\ stack # <<>>
      /\ Top.pc = "entry"
      /\ ~EarlyReturn(Top)
      /\ ResolveRefObj(defs, Top.schema).t = "prim"
      /\ Top.example.kind # "undef")
       => /\ nextVal' = nextVal
          /\ Len(stack') = Len(stack)
          /\ stack'[Len(stack')].example = Top.example]_vars

\* mockCachedObj is entered for a reference that its visited set holds
C32_CycleBreak ==
  /\ status = "running"
  /\ stack # <<>>
  /\ Top.pc = "entry"
  /\ Top.schema.t = "ref"
  /\ Top.schema.ref \in visitedSets[Top.vis]

\* C32: a call of mockCachedObj that returns undefined because the
\* reference is in the visited set writes nothing to the caches, so the
\* cycle break creates no entry for the reference; an independent top-level
\* call starts with an empty visited set and is not cut by an earlier one.
C32_CycleBreakNeverCached ==
  [][/\ C32_CycleBreak
          => /\ mockCache' = mockCache
             /\ payloadCache' = payloadCache
             /\ visitedSets' = visitedSets
             /\ IF Len(stack) > 1
                THEN stack' = SetTop(Rest, Resume(Rest[Len(Rest)], Undef))
                ELSE stack' = <<>> /\ result' = Undef
     /\ (status \in {"idle", "done"} /\ status' = "running" /\ job' = "top")
          => /\ Len(stack') = 1
             /\ stack'[1].schema.t = "ref"
             /\ stack'[1].schema.ref \notin visitedSets'[stack'[1].vis]]_vars

\* the property r of A refers to A: the nested call was cut, r is undefined
\* in the example under construction and the mock cache holds nothing for A
C32_Witness ==
  /\ status = "running"
  /\ stack # <<>>
  /\ Top.pc = "props"
  /\ Top.schema = RefS("A")
  /\ Top.key = "r"
  /\ Has(Top.props, "r")
  /\ Get(Top.props, "r") = RefS("A")
  /\ "A" \in visitedSets[Top.vis]
  /\ Has(Top.example.children, "r")
  /\ Get(Top.example.children, "r") = Undef
  /\ mockCache["A"] = Undef

\* C33: after cross-file inclusion every rewritten pointer resolves in the
\* local document to the definition of the file it originally named: when a
\* reference is rewritten, the local definition of its name is the object of
\* that file, and a definition the local document holds is never replaced.
C33_PointerKeepsItsDefinition ==
  [][/\ (ipc = "running" /\ work # <<>> /\ work[Len(work)].kind = "refs")
          => \A site \in (loading \cap SeqToSet(work[Len(work)].pending)) \ loading' :
               LET node == objects[site.obj][site.list][site.i]
                   docPath == IF node.file # "" THEN node.file ELSE work[Len(work)].docPath
               IN node.ptr # "" => specDefinitions'[node.ptr] = <<docPath, node.ptr>>
     /\ \A n \in DOMAIN specDefinitions :
          specDefinitions[n] # NoObject => specDefinitions'[n] = specDefinitions[n]]_vars

\* C34: cross-file inclusion terminates when remote definitions refer to
\* each other cyclically: the references that are followed are those of an
\* object whose location is already recorded as visited, every nested call
\* has recorded a location of its own, and the inclusion returns.
C34_InclusionTerminates ==
  /\ [](\A k \in DOMAIN work :
          work[k].kind = "refs" =>
            \A j \in DOMAIN work[k].pending :
              \/ work[k].pending[j].obj = <<SpecPath, "L">>
              \/ work[k].pending[j].obj[2] \in visitedEntities)
  /\ [](Len(work) <= 1 + 2 * Cardinality(visitedEntities))
  /\ [][Len(work') > Len(work) /\ ipc = "running"
          => visitedEntities' # visitedEntities /\ visitedEntities \subseteq visitedEntities']_vars
  /\ <>(ipc = "done")

\* X of a.json refers to W of b.json, which refers back to X of a.json: the
\* inclusion has returned with both copied once and all pointers local
C34_Witness ==
  /\ ipc = "done"
  /\ work = <<>>
  /\ objects[<<"a.json", "X">>].props = <<Ref("", "W")>>
  /\ objects[<<"b.json", "W">>].props = <<Ref("", "X")>>
  /\ Cardinality({i \in DOMAIN copies : copies[i] = <<"a.json", "X">>}) = 1
  /\ Cardinality({i \in DOMAIN copies : copies[i] = <<"b.json", "W">>}) = 1

\* the definition object the loop over the definitions of a parsed file
\* sets into the local document in this step
C35_Pulled == copies'[Len(copies')]

\* C35: after a definition D of a remote document has been spliced, every
\* other definition of that document whose composition list refers to D is
\* in the local document at the end of the inclusion, and a definition that
\* is pulled in without being referenced composes from a spliced definition
\* of its document.
C35_ComposingDefinitionsPulled ==
  /\ [](ipc = "done" =>
          \A i \in DOMAIN copies : \A m \in SeqToSet(docsCache[copies[i][1]]) :
            (\E j \in DOMAIN objects[<<copies[i][1], m>>].allOf :
               objects[<<copies[i][1], m>>].allOf[j] = Ref("", copies[i][2]))
              => specDefinitions[m] = <<copies[i][1], m>>)
  /\ [][(/\ ipc = "running"
          /\ work # <<>>
          /\ work[Len(work)].kind = "defs"
          /\ copies' # copies)
           => \E j \in DOMAIN objects[C35_Pulled].allOf :
                \E i \in DOMAIN copies :
                  /\ copies[i][1] = C35_Pulled[1]
                  /\ objects[C35_Pulled].allOf[j] = Ref("", copies[i][2])]_vars

\* an item without the values the synthesizer chose
RECURSIVE C36_Shape(_)
C36_Shape(item) ==
  [kind |-> item.kind, required |-> item.required, mocked |-> item.mocked,
   value |-> [item.value EXCEPT !.n = IF @ > 0 THEN 1 ELSE 0],
   children |-> [i \in DOMAIN item.children |->
                   <<item.children[i][1], C36_Shape(item.children[i][2])>>]]

\* C36: the item the mock cache holds for a definition does not depend on
\* which top-level call reached the definition first: a generator that makes
\* the top-level calls in the opposite order leaves the same cached items
\* for the definitions the calls were made on.
C36_CachedItemOrderIndependent ==
  (earlier.instance = 2 /\ status = "done" /\ calls = Len(earlier.plan))
    => \A i \in DOMAIN earlier.plan :
         C36_Shape(mockCache[earlier.plan[i]]) = C36_Shape(earlier.cache[earlier.plan[i]])

\* reference verification threw
C37_VerificationFailed == rpc = "failed" /\ raised.code = "REF_NOTFOUND_ERROR"

\* C37: when reference verification fails, resolve has changed nothing in
\* the document: the step that throws leaves the document as it is, no
\* other pass has run, and the definitions are those the resolver was given.
C37_FailedVerificationChangesNothing ==
  /\ [](C37_VerificationFailed
         => /\ passLog = <<"verify">>
            /\ definitions = original
            /\ paths \cap xmsPaths = {}
            /\ resolvedAllOfModels = {}
            /\ subTreeMap = <<>>)
  /\ [][(rpc # "failed" /\ rpc' = "failed" /\ raised'.code = "REF_NOTFOUND_ERROR")
          => UNCHANGED <<definitions, order, paths, xmsPaths, opParams, hostParams,
                         respSchema>>]_vars
  /\ [][C37_VerificationFailed => UNCHANGED vars]_vars

\* verification failed on a document whose definition C composes P, with
\* composition flattening enabled: C still has its composition list
C37_Witness ==
  /\ C37_VerificationFailed
  /\ options.shouldResolveAllOf
  /\ original["C"].allOf = <<"P">>
  /\ definitions["C"].allOf = <<"P">>
  /\ paths = {"get"}
  /\ xmsPaths = {"post"}

\* the step stores the response of the status code mockResponse is at
C38_Stored ==
  /\ status \in {"response", "running"}
  /\ job = "example"
  /\ ridx <= Len(respExample)
  /\ ridx' = ridx + 1
  /\ Get(respExample', respExample[ridx][1]) # Undef

\* the headers of the response the step stores
C38_Headers == Child(Get(respExample', respExample[ridx][1]), "headers")

\* C38: when the supplied example holds headers for a status code, the
\* generated response keeps them; a polling header is synthesized only when
\* no headers were supplied, the status is 201 or 202, the header validator
\* is absent or accepts and a polling attribute is found, and it is then the
\* single entry of the header map.
C38_SuppliedHeadersKept ==
  [][C38_Stored
       => IF Truthy(Child(respExample[ridx][2], "headers"))
          THEN C38_Headers = Child(respExample[ridx][2], "headers")
          ELSE IF /\ ~Truthy(Child(respExample[ridx][2], "hearders"))
                  /\ respExample[ridx][1] \in {"201", "202"}
                  /\ ~(rule.has /\ "headers" \in rule.rejects)
                  /\ specItem.pollingAttr # ""
          THEN C38_Headers =
                 RawObj(<< <<specItem.pollingAttr,
                             RawScalar(Const("https://foo.com/operationstatus"))>> >>)
          ELSE Truthy(Child(respExample[ridx][2], "hearders")) \/ C38_Headers = Undef]_vars

====
